---------------------------- MODULE Spec2Model ----------------------------
(***************************************************************************)
(* Plan lifecycle and ledger engine of the Daksk investment backend.       *)
(*                                                                         *)
(* The database is modelled as four collections (users, instances,         *)
(* ledger, plans) plus the settings singleton and the lottery code.  The   *)
(* id of a user, plan instance or plan is the index of the document in     *)
(* its collection; 0 is the null reference.  The Transaction collection    *)
(* is a set of documents: no handler reads the order of its entries.  The  *)
(* _id of an entry is modelled by (user, type, seq), seq numbering the     *)
(* entries of one type of one user.                                        *)
(* Amounts are in MT; the catalog, the settings profiles and the request   *)
(* amounts are chosen so that every percentage the code computes is a      *)
(* whole number (see ExactArithmetic), so integer arithmetic is the code's *)
(* arithmetic on these inputs.                                             *)
(*                                                                         *)
(* Time is a discrete clock `now`; one tick is half a day                  *)
(* (TWENTY_FOUR_HOURS = 2), so "less than 24 hours later" and "after       *)
(* endDate" are distinguishable.                                           *)
(*                                                                         *)
(* Spec   : the plan engine, registration, deposits and the settings       *)
(*          (plansController.js, userController.js:320-949,                *)
(*          unnamed/part_007); every request runs to completion before     *)
(*          the next one starts.                                           *)
(* SpecV1 : the wallet under the earlier handlers of                       *)
(*          adminController.js:274-511 and userController.js:1-319,        *)
(*          request by request.                                            *)
(* SpecW  : the wallet under the later handlers (deposits, withdrawals    *)
(*          with their fee, settlement by the admin), request by request.  *)
(* SpecC  : the requests of two clients interleave at the awaits of the    *)
(*          handlers.                                                      *)
(* SpecF  : as SpecC, and an awaited call of the database can fail.        *)
(* SpecP  : the catalog under the admin's createPlan and updatePlan, with  *)
(*          one account activating and collecting on it.                   *)
(* SpecT  : accounts that activate, collect and renew, and the admin's    *)
(*          deletePlan of plansController.js.                              *)
(* SpecL  : the requests of the plan engine, request by request, under    *)
(*          the condition that the owner of an instance past its endDate   *)
(*          gets a collect request served.                                 *)
(* SpecD  : accounts that deposit and activate, and the admin's deleteUser *)
(*          of unnamed/part_007.                                           *)
(* SpecR  : the requests as the router mounts them (unnamed/part_000):     *)
(*          every user route behind protectUser of auth.js, with the       *)
(*          lottery and the admin's blocking and balance edits; the clock  *)
(*          stands still.                                                  *)
(***************************************************************************)
EXTENDS Integers, Sequences, FiniteSets, TLC

VARIABLES
    users,      \* User collection
    instances,  \* PlanInstance collection
    ledger,     \* Transaction collection (a set of documents)
    plans,      \* Plan collection (the catalog)
    settings,   \* the Settings document { configKey: "main_settings" }
    lottery,    \* the LotteryCode collection (at most one code)
    now,        \* the wall clock, in ticks
    last,       \* the last request served and its response (sequential runs)
    pre,        \* the collections as they were when that request arrived
    procs       \* the requests in flight (interleaved runs)

vars == <<users, instances, ledger, plans, settings, lottery, now, last, pre, procs>>
db == <<users, instances, ledger, plans, settings, lottery>>

----------------------------------------------------------------------------
(* Bounds of the model *)

MaxUsers == 2
MaxInstances == 2
MaxLedger == 6
MaxTime == 3
MaxClients == 2
MaxPlans == 3

(* Program constants *)

TWENTY_FOUR_HOURS == 2      \* 24 h, in ticks of 12 h
DefaultWelcomeBonus == 50
DefaultReferralCommissionRate == 30
DefaultDailyCommissionRate == 15
DefaultWithdrawalFee == 3
DefaultDepositMin == 50
DefaultDepositMax == 25000
DefaultWithdrawalMin == 100
DefaultWithdrawalMax == 25000

NoDate == -1

----------------------------------------------------------------------------
(* Documents *)

NewUser(invitedBy) ==
    [ walletBalance |-> 0, bonusBalance |-> 0, invitedBy |-> invitedBy,
      activePlanInstance |-> 0, hasDeposited |-> FALSE,
      hasActivatedPlan |-> FALSE, isBlocked |-> FALSE ]

NewPlanInstance(uid, pid, amount, profit, start, end) ==
    [ user |-> uid, plan |-> pid, investedAmount |-> amount,
      dailyProfit |-> profit, startDate |-> start, endDate |-> end,
      lastCollectedDate |-> NoDate, totalCollected |-> 0,
      status |-> "active" ]

(* An entry created without a status is pending. *)
DefaultStatus_Pending == "pending"

(* TransactionSchema: status ... default: 'approved' *)
DefaultStatus == "approved"

NewTransaction(uid, type, amount, status, totalDeducted, from) ==
    [ user |-> uid, type |-> type, seq |-> 0, amount |-> amount,
      status |-> status, totalDeducted |-> totalDeducted, from |-> from ]

(* The _id of a Transaction document. *)
IdOf(doc) == <<doc.user, doc.type, doc.seq>>

(* Transaction.create(doc): the document is stored under a fresh _id. *)
Create(lg, doc) ==
    LET same == { d \in lg : d.user = doc.user /\ d.type = doc.type }
    IN lg \cup { [ doc EXCEPT !.seq = Cardinality(same) + 1 ] }

(* transaction.status = status; transaction.save(): the stored document of
   that _id gets the status. *)
Settle(lg, tx, status) ==
    { IF IdOf(d) = IdOf(tx) THEN [ d EXCEPT !.status = status ] ELSE d : d \in lg }

(* The id of no entry. *)
NoTransaction == NewTransaction(0, "none", 0, "none", 0, 0)

DefaultSettings ==
    [ welcomeBonus |-> DefaultWelcomeBonus,
      referralCommissionRate |-> DefaultReferralCommissionRate,
      dailyCommissionRate |-> DefaultDailyCommissionRate,
      withdrawalFee |-> DefaultWithdrawalFee,
      depositMin |-> DefaultDepositMin, depositMax |-> DefaultDepositMax,
      withdrawalMin |-> DefaultWithdrawalMin,
      withdrawalMax |-> DefaultWithdrawalMax ]

(* The catalog the runs start from: a percentage plan and a fixed plan. *)
InitialPlans ==
    << [ minAmount |-> 40, maxAmount |-> 40, dailyYieldType |-> "percentage",
         dailyYieldValue |-> 50, durationDays |-> 1 ],
       [ minAmount |-> 60, maxAmount |-> 100, dailyYieldType |-> "fixed",
         dailyYieldValue |-> 20, durationDays |-> 1 ] >>

NullInstance == NewPlanInstance(0, 0, 0, 0, NoDate, NoDate)

(* .populate('activePlanInstance') *)
Populate(insts, iid) ==
    IF iid \in 1..Len(insts) THEN insts[iid] ELSE NullInstance

NoLottery ==
    [ exists |-> FALSE, valueMin |-> 0, valueMax |-> 0, maxUses |-> 0,
      currentUses |-> 0, expiresAt |-> 0, isActive |-> FALSE, claimedBy |-> {} ]

NoRequest == [ op |-> "none", uid |-> 0, arg |-> 0, amt |-> 0, resp |-> "none" ]

Snapshot == [ users |-> users, instances |-> instances, ledger |-> ledger ]

UserIds == 1..Len(users)
InstanceIds == 1..Len(instances)
PlanIds == 1..Len(plans)

(* The place of a plan document that plan.deleteOne() removed. *)
NoPlan == [ deleted |-> TRUE ]

(* Plan.findById(planId) finds a document. *)
PlanExists(catalog, planId) ==
    planId \in 1..Len(catalog) /\ catalog[planId] # NoPlan

----------------------------------------------------------------------------
(* Responses (sequential runs) *)

Served(op, uid, arg, amt, resp) ==
    /\ last' = [ op |-> op, uid |-> uid, arg |-> arg, amt |-> amt, resp |-> resp ]
    /\ pre' = Snapshot
    /\ UNCHANGED procs

(* A request is taken up when no other request is being served. *)
Idle ==
    /\ last.op = "none"
    /\ \A p \in DOMAIN procs : procs[p].pc = "idle"

NoSnapshot == [ users |-> << >>, instances |-> << >>, ledger |-> {} ]

(* The response is sent (res.json, or the error handler after a throw) and
   the request ends. *)
Respond ==
    /\ last.op # "none"
    /\ last' = NoRequest
    /\ pre' = NoSnapshot
    /\ UNCHANGED <<users, instances, ledger, plans, settings, lottery, now, procs>>

----------------------------------------------------------------------------
(* userController.js: registerUser *)

registerUser(invitedById) ==
    /\ Idle
    /\ Len(users) < MaxUsers
    /\ Cardinality(ledger) < MaxLedger
    /\ LET invitedByUser == IF invitedById \in UserIds THEN invitedById ELSE 0
           uid == Len(users) + 1
           welcomeBonusAmount == settings.welcomeBonus
           created == NewUser(invitedByUser)
       IN /\ users' = Append(users,
                 [created EXCEPT !.bonusBalance = @ + welcomeBonusAmount])
          /\ ledger' = Create(ledger,
                 NewTransaction(uid, "welcome_bonus", welcomeBonusAmount,
                                "approved", 0, 0))
          /\ Served("register", uid, invitedById, 0, "ok")
    /\ UNCHANGED <<instances, plans, settings, lottery, now>>

Reject(op, uid, resp) ==
    /\ Served(op, uid, 0, 0, resp)
    /\ UNCHANGED <<users, instances, ledger, plans, settings, lottery, now>>

----------------------------------------------------------------------------
(* auth.js: the middleware in front of every user route *)

(* The account of the token is not looked at beyond its existence. *)
protectUser_NoBlockCheck(uid, op, next) ==
    IF uid \notin UserIds
    THEN Idle /\ Reject(op, 0, "NotAuthorized")
    ELSE next

(* req.user is loaded by the id of the token; a missing or blocked account is
   answered 401 and the handler (next) is not called. *)
protectUser(uid, op, next) ==
    IF uid \notin UserIds
    THEN Idle /\ Reject(op, 0, "NotAuthorized")
    ELSE IF users[uid].isBlocked
         THEN Idle /\ Reject(op, uid, "NotAuthorized")
         ELSE next

----------------------------------------------------------------------------
(* plansController.js: the computations of the plan engine *)

Pct(base, rate) == (base * rate) \div 100

(* GET /api/plans: the catalog and the populated activePlanInstance of the
   user are returned; nothing is written. *)
getAllAvailablePlans(uid) ==
    /\ Idle
    /\ uid \in UserIds
    /\ Served("plans", uid, users[uid].activePlanInstance, 0, "ok")
    /\ UNCHANGED <<users, instances, ledger, plans, settings, lottery, now>>

(* GET /api/users/dashboard: the user with the populated activePlanInstance
   and sums over the ledger are returned; nothing is written. *)
getDashboardData(uid) ==
    /\ Idle
    /\ uid \in UserIds
    /\ Served("dashboard", uid, users[uid].activePlanInstance, 0, "ok")
    /\ UNCHANGED <<users, instances, ledger, plans, settings, lottery, now>>

(* The whole bonus is taken, whatever the amount invested. *)
BonusAmountUsed_All(user, amount) ==
    IF user.bonusBalance > 0 THEN user.bonusBalance ELSE 0

BonusAmountUsed(user, amount) ==
    IF user.bonusBalance > 0
    THEN IF user.bonusBalance >= amount THEN amount ELSE user.bonusBalance
    ELSE 0

RealAmountToPay(user, amount) ==
    IF user.bonusBalance > 0
    THEN IF user.bonusBalance >= amount THEN 0 ELSE amount - user.bonusBalance
    ELSE amount

DailyProfitOf(plan, amount) ==
    IF plan.dailyYieldType = "fixed"
    THEN plan.dailyYieldValue
    ELSE Pct(amount, plan.dailyYieldValue)

EndDateOf(start, plan) == start + plan.durationDays * TWENTY_FOUR_HOURS

ReferralCommission(amount, cfg) == Pct(amount, cfg.referralCommissionRate)

(* The activation rate is applied to a collection. *)
DailyCommission_ReferralRate(profit, cfg) == Pct(profit, cfg.referralCommissionRate)

DailyCommission(profit, cfg) == Pct(profit, cfg.dailyCommissionRate)

(* The referrer document a handler loads with User.findById(user.invitedBy). *)
ReferrerOf(user, us) ==
    IF user.invitedBy \in 1..Len(us) THEN user.invitedBy ELSE 0

(* The activation does not look at the activePlanInstance of the user. *)
ActivateError_IgnoresActivePlan(user, planId, amount, catalog) ==
    IF ~PlanExists(catalog, planId) THEN "PlanNotFound"
    ELSE IF amount < catalog[planId].minAmount \/ amount > catalog[planId].maxAmount
         THEN "AmountOutOfRange"
    ELSE IF user.walletBalance < RealAmountToPay(user, amount)
         THEN "InsufficientFunds"
    ELSE "ok"

ActivateError(user, planId, amount, catalog) ==
    IF user.activePlanInstance # 0 THEN "AlreadyHasActivePlan"
    ELSE IF ~PlanExists(catalog, planId) THEN "PlanNotFound"
    ELSE IF amount < catalog[planId].minAmount \/ amount > catalog[planId].maxAmount
         THEN "AmountOutOfRange"
    ELSE IF user.walletBalance < RealAmountToPay(user, amount)
         THEN "InsufficientFunds"
    ELSE "ok"

ActivatedUser(user, amount, iid) ==
    [ user EXCEPT !.walletBalance = @ - RealAmountToPay(user, amount),
                  !.bonusBalance = @ - BonusAmountUsed(user, amount),
                  !.hasActivatedPlan = TRUE,
                  !.activePlanInstance = iid ]

(* The commission is credited to the bonusBalance of the referrer. *)
CreditCommission_ToBonus(us, ref, amount) ==
    IF ref = 0 THEN us
    ELSE [ us EXCEPT ![ref].bonusBalance = @ + amount ]

(* The commission block shared by activation and collection: the referrer is
   credited in walletBalance and a commission entry is appended. *)
CreditCommission(us, ref, amount) ==
    IF ref = 0 THEN us
    ELSE [ us EXCEPT ![ref].walletBalance = @ + amount ]

CommissionEntry(lg, ref, amount, from) ==
    IF ref = 0 THEN lg
    ELSE Create(lg, NewTransaction(ref, "commission", amount, DefaultStatus, 0, from))

Room(lg, n) == Cardinality(lg) + n <= MaxLedger

(* The entry records only what the wallet paid. *)
InvestmentAmount_RealPart(user, amount) == -RealAmountToPay(user, amount)

(* amount: -amount, the whole invested amount *)
InvestmentAmount(user, amount) == -amount

activatePlan(uid, planId, investedAmount) ==
    /\ Idle
    /\ uid \in UserIds
    /\ LET user == users[uid]
           err == ActivateError(user, planId, investedAmount, plans)
       IN IF err # "ok"
          THEN Reject("activate", uid, err)
          ELSE LET plan == plans[planId]
                   iid == Len(instances) + 1
                   ref == ReferrerOf(user, users)
                   commissionAmount == ReferralCommission(investedAmount, settings)
                   saved == [ users EXCEPT ![uid] = ActivatedUser(user, investedAmount, iid) ]
               IN /\ Len(instances) < MaxInstances
                  /\ Room(ledger, IF ref = 0 THEN 1 ELSE 2)
                  /\ instances' = Append(instances,
                         NewPlanInstance(uid, planId, investedAmount,
                             DailyProfitOf(plan, investedAmount), now,
                             EndDateOf(now, plan)))
                  /\ users' = CreditCommission(saved, ref, commissionAmount)
                  /\ ledger' = CommissionEntry(
                         Create(ledger, NewTransaction(uid, "investment",
                             InvestmentAmount(user, investedAmount),
                             DefaultStatus, 0, 0)),
                         ref, commissionAmount, uid)
                  /\ Served("activate", uid, planId, investedAmount, "ok")
                  /\ UNCHANGED <<plans, settings, lottery, now>>

(* A plan of the same floor counts as an upgrade. *)
UpgradeError_SameTier(user, newPlanId, insts, catalog) ==
    IF user.activePlanInstance = 0 THEN "NoActivePlan"
    ELSE IF ~PlanExists(catalog, newPlanId) THEN "PlanNotFound"
    ELSE LET oldPlan == catalog[insts[user.activePlanInstance].plan]
             newPlan == catalog[newPlanId]
         IN IF newPlan.minAmount < oldPlan.minAmount THEN "NotAnUpgrade"
            ELSE IF user.walletBalance < newPlan.minAmount - oldPlan.minAmount
                 THEN "InsufficientFunds"
            ELSE "ok"

UpgradeError(user, newPlanId, insts, catalog) ==
    IF user.activePlanInstance = 0 THEN "NoActivePlan"
    ELSE IF ~PlanExists(catalog, newPlanId) THEN "PlanNotFound"
    ELSE LET oldPlan == catalog[insts[user.activePlanInstance].plan]
             newPlan == catalog[newPlanId]
         IN IF newPlan.minAmount <= oldPlan.minAmount THEN "NotAnUpgrade"
            ELSE IF user.walletBalance < newPlan.minAmount - oldPlan.minAmount
                 THEN "InsufficientFunds"
            ELSE "ok"

(* The price difference is taken from the bonus first, as an activation
   does. *)
upgradePlan_BonusFirst(uid, newPlanId) ==
    /\ Idle
    /\ uid \in UserIds
    /\ LET user == users[uid]
           err == UpgradeError(user, newPlanId, instances, plans)
       IN IF err # "ok"
          THEN Reject("upgrade", uid, err)
          ELSE LET old == user.activePlanInstance
                   oldPlan == plans[instances[old].plan]
                   newPlan == plans[newPlanId]
                   priceDifference == newPlan.minAmount - oldPlan.minAmount
                   iid == Len(instances) + 1
               IN /\ Len(instances) < MaxInstances
                  /\ Room(ledger, 1)
                  /\ instances' = Append(
                         [ instances EXCEPT ![old].status = "expired" ],
                         NewPlanInstance(uid, newPlanId, newPlan.minAmount,
                             DailyProfitOf(newPlan, newPlan.minAmount), now,
                             EndDateOf(now, newPlan)))
                  /\ users' = [ users EXCEPT
                         ![uid].walletBalance =
                             @ - RealAmountToPay(user, priceDifference),
                         ![uid].bonusBalance =
                             @ - BonusAmountUsed(user, priceDifference),
                         ![uid].activePlanInstance = iid ]
                  /\ ledger' = Create(ledger, NewTransaction(uid, "investment",
                         -priceDifference, DefaultStatus, 0, 0))
                  /\ Served("upgrade", uid, newPlanId, priceDifference, "ok")
                  /\ UNCHANGED <<plans, settings, lottery, now>>

(* The upgrade credits the referrer with the referral commission on the
   price difference. *)
upgradePlan_WithCommission(uid, newPlanId) ==
    /\ Idle
    /\ uid \in UserIds
    /\ LET user == users[uid]
           err == UpgradeError(user, newPlanId, instances, plans)
       IN IF err # "ok"
          THEN Reject("upgrade", uid, err)
          ELSE LET old == user.activePlanInstance
                   oldPlan == plans[instances[old].plan]
                   newPlan == plans[newPlanId]
                   priceDifference == newPlan.minAmount - oldPlan.minAmount
                   iid == Len(instances) + 1
                   ref == ReferrerOf(user, users)
                   commissionAmount == ReferralCommission(priceDifference, settings)
               IN /\ Len(instances) < MaxInstances
                  /\ Room(ledger, 1)
                  /\ instances' = Append(
                         [ instances EXCEPT ![old].status = "expired" ],
                         NewPlanInstance(uid, newPlanId, newPlan.minAmount,
                             DailyProfitOf(newPlan, newPlan.minAmount), now,
                             EndDateOf(now, newPlan)))
                  /\ users' = CreditCommission(
                         [ users EXCEPT
                             ![uid].walletBalance = @ - priceDifference,
                             ![uid].activePlanInstance = iid ],
                         ref, commissionAmount)
                  /\ ledger' = Create(ledger, NewTransaction(uid, "investment",
                         -priceDifference, DefaultStatus, 0, 0))
                  /\ Served("upgrade", uid, newPlanId, priceDifference, "ok")
                  /\ UNCHANGED <<plans, settings, lottery, now>>

(* The old instance is left active beside the new one. *)
Invalidated_KeptActive(insts, old) == insts

(* oldPlanInstance.status = 'expired'; oldPlanInstance.save() *)
Invalidated(insts, old) == [ insts EXCEPT ![old].status = "expired" ]

upgradePlan(uid, newPlanId) ==
    /\ Idle
    /\ uid \in UserIds
    /\ LET user == users[uid]
           err == UpgradeError(user, newPlanId, instances, plans)
       IN IF err # "ok"
          THEN Reject("upgrade", uid, err)
          ELSE LET old == user.activePlanInstance
                   oldPlan == plans[instances[old].plan]
                   newPlan == plans[newPlanId]
                   priceDifference == newPlan.minAmount - oldPlan.minAmount
                   iid == Len(instances) + 1
               IN /\ Len(instances) < MaxInstances
                  /\ Room(ledger, 1)
                  /\ instances' = Append(
                         Invalidated(instances, old),
                         NewPlanInstance(uid, newPlanId, newPlan.minAmount,
                             DailyProfitOf(newPlan, newPlan.minAmount), now,
                             EndDateOf(now, newPlan)))
                  /\ users' = [ users EXCEPT
                         ![uid].walletBalance = @ - priceDifference,
                         ![uid].activePlanInstance = iid ]
                  /\ ledger' = Create(ledger, NewTransaction(uid, "investment",
                         -priceDifference, DefaultStatus, 0, 0))
                  /\ Served("upgrade", uid, newPlanId, priceDifference, "ok")
                  /\ UNCHANGED <<plans, settings, lottery, now>>

(* The window is compared with half a day too little. *)
CanCollect_ShortWindow(inst, t) ==
    \/ inst.lastCollectedDate = NoDate
    \/ t - inst.lastCollectedDate >= TWENTY_FOUR_HOURS - 1

(* Exactly 24 h after the last collection the window is still closed. *)
CanCollect_StrictlyAfter(inst, t) ==
    \/ inst.lastCollectedDate = NoDate
    \/ t - inst.lastCollectedDate > TWENTY_FOUR_HOURS

(* The time of the last collection is not looked at. *)
CanCollect_Always(inst, t) == TRUE

CanCollect(inst, t) ==
    \/ inst.lastCollectedDate = NoDate
    \/ t - inst.lastCollectedDate >= TWENTY_FOUR_HOURS

(* The collection window is tested before the end of the instance. *)
CollectError_WindowFirst(user, planInstance, t) ==
    IF user.activePlanInstance = 0 THEN "NoActivePlan"
    ELSE IF ~CanCollect(planInstance, t) THEN "CollectionNotYetAvailable"
    ELSE IF t > planInstance.endDate THEN "PlanExpired"
    ELSE "ok"

(* planInstance is the populated user.activePlanInstance. *)
CollectError(user, planInstance, t) ==
    IF user.activePlanInstance = 0 THEN "NoActivePlan"
    ELSE IF t > planInstance.endDate THEN "PlanExpired"
    ELSE IF ~CanCollect(planInstance, t) THEN "CollectionNotYetAvailable"
    ELSE "ok"

(* The profit is computed from the template as it is at the collection. *)
ProfitToCollect_FromTemplate(planInstance, catalog) ==
    IF PlanExists(catalog, planInstance.plan)
    THEN DailyProfitOf(catalog[planInstance.plan], planInstance.investedAmount)
    ELSE planInstance.dailyProfit

(* const profit = planInstance.dailyProfit *)
ProfitToCollect(planInstance, catalog) == planInstance.dailyProfit

(* The instance is set to expired and the account keeps its reference. *)
ExpirePlan_KeepsReference(uid, iid) ==
    /\ instances' = [ instances EXCEPT ![iid].status = "expired" ]
    /\ users' = users

(* planInstance.status = 'expired'; user.activePlanInstance = null; both
   saved. *)
ExpirePlan(uid, iid) ==
    /\ instances' = [ instances EXCEPT ![iid].status = "expired" ]
    /\ users' = [ users EXCEPT ![uid].activePlanInstance = 0 ]

collectDailyProfit(uid) ==
    /\ Idle
    /\ uid \in UserIds
    /\ LET user == users[uid]
           iid == user.activePlanInstance
           err == CollectError(user, Populate(instances, iid), now)
       IN CASE err = "PlanExpired" ->
                 /\ ExpirePlan(uid, iid)
                 /\ Served("collect", uid, iid, 0, err)
                 /\ UNCHANGED <<ledger, plans, settings, lottery, now>>
            [] err = "ok" ->
                 LET profit == ProfitToCollect(instances[iid], plans)
                     ref == ReferrerOf(user, users)
                     dailyCommission == DailyCommission(profit, settings)
                     saved == [ users EXCEPT ![uid].walletBalance = @ + profit ]
                 IN /\ Room(ledger, IF ref = 0 THEN 1 ELSE 2)
                    /\ users' = CreditCommission(saved, ref, dailyCommission)
                    /\ instances' = [ instances EXCEPT
                           ![iid].lastCollectedDate = now,
                           ![iid].totalCollected = @ + profit ]
                    /\ ledger' = CommissionEntry(
                           Create(ledger, NewTransaction(uid, "collection",
                               profit, DefaultStatus, 0, 0)),
                           ref, dailyCommission, uid)
                    /\ Served("collect", uid, iid, profit, "ok")
                    /\ UNCHANGED <<plans, settings, lottery, now>>
            [] OTHER -> Reject("collect", uid, err)

(* The owner of the instance is not compared with the requester. *)
RenewError_AnyOwner(user, uid, instanceId, insts, catalog) ==
    IF instanceId \notin 1..Len(insts) THEN "InstanceNotFound"
    ELSE IF insts[instanceId].status # "expired" THEN "NotExpired"
    ELSE IF user.activePlanInstance # 0 THEN "AlreadyHasActivePlan"
    ELSE IF ~PlanExists(catalog, insts[instanceId].plan) THEN "PlanNotFound"
    ELSE IF user.walletBalance < catalog[insts[instanceId].plan].minAmount
         THEN "InsufficientFunds"
    ELSE "ok"

RenewError(user, uid, instanceId, insts, catalog) ==
    IF instanceId \notin 1..Len(insts) THEN "InstanceNotFound"
    ELSE IF insts[instanceId].user # uid THEN "InstanceNotFound"
    ELSE IF insts[instanceId].status # "expired" THEN "NotExpired"
    ELSE IF user.activePlanInstance # 0 THEN "AlreadyHasActivePlan"
    ELSE IF ~PlanExists(catalog, insts[instanceId].plan) THEN "PlanNotFound"
    ELSE IF user.walletBalance < catalog[insts[instanceId].plan].minAmount
         THEN "InsufficientFunds"
    ELSE "ok"

(* The expired instance itself is put back to active instead of a new one
   being created. *)
renewPlan_Reactivate(uid, instanceId) ==
    /\ Idle
    /\ uid \in UserIds
    /\ LET user == users[uid]
           err == RenewError(user, uid, instanceId, instances, plans)
       IN IF err # "ok"
          THEN Reject("renew", uid, err)
          ELSE LET pid == instances[instanceId].plan
                   planToRenew == plans[pid]
                   renewalCost == planToRenew.minAmount
               IN /\ Room(ledger, 1)
                  /\ instances' = [ instances EXCEPT
                         ![instanceId].status = "active",
                         ![instanceId].startDate = now,
                         ![instanceId].endDate = EndDateOf(now, planToRenew),
                         ![instanceId].lastCollectedDate = NoDate ]
                  /\ users' = [ users EXCEPT
                         ![uid].walletBalance = @ - renewalCost,
                         ![uid].hasActivatedPlan = TRUE,
                         ![uid].activePlanInstance = instanceId ]
                  /\ ledger' = Create(ledger, NewTransaction(uid, "investment",
                         -renewalCost, DefaultStatus, 0, 0))
                  /\ Served("renew", uid, instanceId, renewalCost, "ok")
                  /\ UNCHANGED <<plans, settings, lottery, now>>

renewPlan(uid, instanceId) ==
    /\ Idle
    /\ uid \in UserIds
    /\ LET user == users[uid]
           err == RenewError(user, uid, instanceId, instances, plans)
       IN IF err # "ok"
          THEN Reject("renew", uid, err)
          ELSE LET pid == instances[instanceId].plan
                   planToRenew == plans[pid]
                   renewalCost == planToRenew.minAmount
                   iid == Len(instances) + 1
               IN /\ Len(instances) < MaxInstances
                  /\ Room(ledger, 1)
                  /\ instances' = Append(instances,
                         NewPlanInstance(uid, pid, renewalCost,
                             DailyProfitOf(planToRenew, renewalCost), now,
                             EndDateOf(now, planToRenew)))
                  /\ users' = [ users EXCEPT
                         ![uid].walletBalance = @ - renewalCost,
                         ![uid].hasActivatedPlan = TRUE,
                         ![uid].activePlanInstance = iid ]
                  /\ ledger' = Create(ledger, NewTransaction(uid, "investment",
                         -renewalCost, DefaultStatus, 0, 0))
                  /\ Served("renew", uid, instanceId, renewalCost, "ok")
                  /\ UNCHANGED <<plans, settings, lottery, now>>

----------------------------------------------------------------------------
(* userController.js: deposit and withdrawal requests, lottery *)

DepositError(amount, cfg) ==
    IF amount <= 0 THEN "InvalidAmount"
    ELSE IF amount < cfg.depositMin \/ amount > cfg.depositMax THEN "AmountOutOfRange"
    ELSE "ok"

createDepositRequest(uid, amount) ==
    /\ Idle
    /\ uid \in UserIds
    /\ LET err == DepositError(amount, settings)
       IN IF err # "ok"
          THEN Reject("deposit", uid, err)
          ELSE /\ Room(ledger, 1)
               /\ ledger' = Create(ledger,
                      NewTransaction(uid, "deposit", amount, "pending", 0, 0))
               /\ Served("deposit", uid, 0, amount, "ok")
               /\ UNCHANGED <<users, instances, plans, settings, lottery, now>>

WithdrawalFeeOf(amount, cfg) == Pct(amount, cfg.withdrawalFee)

TotalDeducted(amount, cfg) == amount + WithdrawalFeeOf(amount, cfg)

(* The request is accepted whatever the wallet holds. *)
WithdrawalError_NoFundsCheck(user, amount, cfg) ==
    IF amount <= 0 THEN "InvalidAmount"
    ELSE IF amount < cfg.withdrawalMin \/ amount > cfg.withdrawalMax
         THEN "AmountOutOfRange"
    ELSE IF user.activePlanInstance = 0 /\ ~user.hasActivatedPlan THEN "NeverActivated"
    ELSE IF ~user.hasDeposited THEN "NeverDeposited"
    ELSE "ok"

WithdrawalError(user, amount, cfg) ==
    IF amount <= 0 THEN "InvalidAmount"
    ELSE IF amount < cfg.withdrawalMin \/ amount > cfg.withdrawalMax
         THEN "AmountOutOfRange"
    ELSE IF user.activePlanInstance = 0 /\ ~user.hasActivatedPlan THEN "NeverActivated"
    ELSE IF ~user.hasDeposited THEN "NeverDeposited"
    ELSE IF TotalDeducted(amount, cfg) > user.walletBalance THEN "InsufficientFunds"
    ELSE "ok"

createWithdrawalRequest(uid, amount) ==
    /\ Idle
    /\ uid \in UserIds
    /\ LET err == WithdrawalError(users[uid], amount, settings)
       IN IF err # "ok"
          THEN Reject("withdraw", uid, err)
          ELSE /\ Room(ledger, 1)
               /\ ledger' = Create(ledger,
                      NewTransaction(uid, "withdrawal", -amount, "pending",
                                     TotalDeducted(amount, settings), 0))
               /\ Served("withdraw", uid, 0, amount, "ok")
               /\ UNCHANGED <<users, instances, plans, settings, lottery, now>>

RedeemError(user, uid, code, t) ==
    IF ~code.exists THEN "CodeNotFound"
    ELSE IF ~code.isActive \/ code.expiresAt < t THEN "CodeExpired"
    ELSE IF code.currentUses >= code.maxUses THEN "CodeExhausted"
    ELSE IF uid \in code.claimedBy THEN "AlreadyClaimed"
    ELSE IF user.activePlanInstance = 0 THEN "NoActivePlan"
    ELSE "ok"

redeemLotteryCode(uid, prizeAmount) ==
    /\ Idle
    /\ uid \in UserIds
    /\ LET err == RedeemError(users[uid], uid, lottery, now)
       IN IF err # "ok"
          THEN /\ prizeAmount = lottery.valueMin
               /\ Reject("redeem", uid, err)
          ELSE /\ prizeAmount \in lottery.valueMin..lottery.valueMax
               /\ Room(ledger, 1)
               /\ users' = [ users EXCEPT ![uid].walletBalance = @ + prizeAmount ]
               /\ lottery' = [ lottery EXCEPT !.currentUses = @ + 1,
                                              !.claimedBy = @ \cup {uid} ]
               /\ ledger' = Create(ledger, NewTransaction(uid, "lottery_win",
                      prizeAmount, "approved", 0, 0))
               /\ Served("redeem", uid, 0, prizeAmount, "ok")
               /\ UNCHANGED <<instances, plans, settings, now>>

----------------------------------------------------------------------------
(* unnamed/part_007 (adminController.js): settlement and admin actions *)

(* The status of the entry is not looked at. *)
Pending_AnyStatus(lg, tx, type) ==
    /\ tx \in lg
    /\ tx.type = type

(* The answer to a settlement request for an entry that does not exist, is
   of the other type or is not pending.  The entry is named in the request
   served when it is of the type the handler settles. *)
Refuse(op, tx, type) ==
    /\ IF tx.type = type
       THEN Served(op, tx.user, tx.seq, 0, "InvalidOrProcessed")
       ELSE Served(op, 0, 0, 0, "InvalidOrProcessed")
    /\ UNCHANGED <<users, instances, ledger, plans, settings, lottery, now>>

Pending(lg, tx, type) ==
    /\ tx \in lg
    /\ tx.type = type
    /\ tx.status = "pending"

(* The entry is set to approved and the wallet is left as it was. *)
approveDeposit_StatusOnly(tx) ==
    /\ Idle
    /\ IF ~Pending(ledger, tx, "deposit")
       THEN Refuse("approveDeposit", tx, "deposit")
       ELSE    /\ users' = [ users EXCEPT ![tx.user].hasDeposited = TRUE ]
               /\ ledger' = Settle(ledger, tx, "approved")
               /\ Served("approveDeposit", tx.user, 0, tx.amount, "ok")
               /\ UNCHANGED <<instances, plans, settings, lottery, now>>

approveDeposit(tx) ==
    /\ Idle
    /\ IF ~Pending(ledger, tx, "deposit")
       THEN Refuse("approveDeposit", tx, "deposit")
       ELSE    /\ users' = [ users EXCEPT
                      ![tx.user].walletBalance = @ + tx.amount,
                      ![tx.user].hasDeposited = TRUE ]
               /\ ledger' = Settle(ledger, tx, "approved")
               /\ Served("approveDeposit", tx.user, 0, tx.amount, "ok")
               /\ UNCHANGED <<instances, plans, settings, lottery, now>>

(* A rejected deposit takes the hasDeposited flag of the account back. *)
rejectDeposit_ResetsFlag(tx) ==
    /\ Idle
    /\ IF ~Pending(ledger, tx, "deposit")
       THEN Refuse("rejectDeposit", tx, "deposit")
       ELSE /\ ledger' = Settle(ledger, tx, "rejected")
            /\ users' = [ users EXCEPT ![tx.user].hasDeposited = FALSE ]
            /\ Served("rejectDeposit", tx.user, 0, 0, "ok")
            /\ UNCHANGED <<instances, plans, settings, lottery, now>>

rejectDeposit(tx) ==
    /\ Idle
    /\ IF ~Pending(ledger, tx, "deposit")
       THEN Refuse("rejectDeposit", tx, "deposit")
       ELSE /\ ledger' = Settle(ledger, tx, "rejected")
            /\ Served("rejectDeposit", tx.user, 0, 0, "ok")
            /\ UNCHANGED <<users, instances, plans, settings, lottery, now>>

(* The amount to debit is computed again from the fee of the settings at
   the time of the approval. *)
approveWithdrawal_Recomputed(tx) ==
    /\ Idle
    /\ IF ~Pending(ledger, tx, "withdrawal")
       THEN Refuse("approveWithdrawal", tx, "withdrawal")
       ELSE LET totalDeducted == TotalDeducted(-tx.amount, settings)
            IN IF users[tx.user].walletBalance < totalDeducted
               THEN /\ ledger' = Settle(ledger, tx, "rejected")
                    /\ Served("approveWithdrawal", tx.user, tx.seq, totalDeducted,
                              "InsufficientFunds")
                    /\ UNCHANGED <<users, instances, plans, settings, lottery, now>>
               ELSE /\ users' = [ users EXCEPT
                           ![tx.user].walletBalance = @ - totalDeducted ]
                    /\ ledger' = Settle(ledger, tx, "approved")
                    /\ Served("approveWithdrawal", tx.user, tx.seq, totalDeducted, "ok")
                    /\ UNCHANGED <<instances, plans, settings, lottery, now>>

(* The approval of an entry the wallet cannot pay ends with the error and
   the entry is left as it is. *)
approveWithdrawal_Throw(tx) ==
    /\ Idle
    /\ IF ~Pending(ledger, tx, "withdrawal")
       THEN Refuse("approveWithdrawal", tx, "withdrawal")
       ELSE LET totalDeducted == tx.totalDeducted
            IN IF users[tx.user].walletBalance < totalDeducted
               THEN /\ Served("approveWithdrawal", tx.user, tx.seq, totalDeducted,
                              "InsufficientFunds")
                    /\ UNCHANGED <<users, ledger, instances, plans, settings, lottery, now>>
               ELSE /\ users' = [ users EXCEPT
                           ![tx.user].walletBalance = @ - totalDeducted ]
                    /\ ledger' = Settle(ledger, tx, "approved")
                    /\ Served("approveWithdrawal", tx.user, tx.seq, totalDeducted, "ok")
                    /\ UNCHANGED <<instances, plans, settings, lottery, now>>

approveWithdrawal(tx) ==
    /\ Idle
    /\ IF ~Pending(ledger, tx, "withdrawal")
       THEN Refuse("approveWithdrawal", tx, "withdrawal")
       ELSE LET totalDeducted == tx.totalDeducted
            IN IF users[tx.user].walletBalance < totalDeducted
               THEN /\ ledger' = Settle(ledger, tx, "rejected")
                    /\ Served("approveWithdrawal", tx.user, tx.seq, totalDeducted,
                              "InsufficientFunds")
                    /\ UNCHANGED <<users, instances, plans, settings, lottery, now>>
               ELSE /\ users' = [ users EXCEPT
                           ![tx.user].walletBalance = @ - totalDeducted ]
                    /\ ledger' = Settle(ledger, tx, "approved")
                    /\ Served("approveWithdrawal", tx.user, tx.seq, totalDeducted, "ok")
                    /\ UNCHANGED <<instances, plans, settings, lottery, now>>

rejectWithdrawal(tx) ==
    /\ Idle
    /\ IF ~Pending(ledger, tx, "withdrawal")
       THEN Refuse("rejectWithdrawal", tx, "withdrawal")
       ELSE /\ ledger' = Settle(ledger, tx, "rejected")
            /\ Served("rejectWithdrawal", tx.user, 0, 0, "ok")
            /\ UNCHANGED <<users, instances, plans, settings, lottery, now>>

(* A field absent from the request body (undefined). *)
Undefined == -1000

updateUserBalance(uid, walletBalance, bonusBalance) ==
    /\ Idle
    /\ uid \in UserIds
    /\ IF \/ (walletBalance # Undefined /\ walletBalance < 0)
          \/ (bonusBalance # Undefined /\ bonusBalance < 0)
       THEN Reject("updateBalance", uid, "InvalidBalance")
       ELSE /\ users' = [ users EXCEPT
                  ![uid].walletBalance =
                      IF walletBalance # Undefined THEN walletBalance ELSE @,
                  ![uid].bonusBalance =
                      IF bonusBalance # Undefined THEN bonusBalance ELSE @ ]
            /\ Served("updateBalance", uid, 0, 0, "ok")
            /\ UNCHANGED <<instances, ledger, plans, settings, lottery, now>>

SettingsError(body) ==
    IF \E f \in DOMAIN body : body[f] < 0 THEN "InvalidNumber"
    ELSE IF body.depositMin > body.depositMax THEN "DepositRange"
    ELSE IF body.withdrawalMin > body.withdrawalMax THEN "WithdrawalRange"
    ELSE IF body.withdrawalFee > 100 THEN "FeeRange"
    ELSE IF body.referralCommissionRate > 100 THEN "ReferralRateRange"
    ELSE IF body.dailyCommissionRate > 100 THEN "DailyRateRange"
    ELSE "ok"

updateSettings(body) ==
    /\ Idle
    /\ LET err == SettingsError(body)
       IN IF err # "ok"
          THEN Reject("updateSettings", 0, err)
          ELSE /\ settings' = body
               /\ Served("updateSettings", 0, 0, 0, "ok")
               /\ UNCHANGED <<users, instances, ledger, plans, lottery, now>>

createLotteryCode(valueMin, valueMax, maxUses, duration) ==
    /\ Idle
    /\ ~lottery.exists
    /\ IF valueMin <= 0 \/ valueMax <= 0 \/ maxUses <= 0 \/ duration <= 0
          \/ valueMin > valueMax
       THEN Reject("createLotteryCode", 0, "InvalidCode")
       ELSE /\ lottery' = [ exists |-> TRUE, valueMin |-> valueMin,
                            valueMax |-> valueMax, maxUses |-> maxUses,
                            currentUses |-> 0, expiresAt |-> now + duration,
                            isActive |-> TRUE, claimedBy |-> {} ]
            /\ Served("createLotteryCode", 0, 0, 0, "ok")
            /\ UNCHANGED <<users, instances, ledger, plans, settings, now>>

(* unnamed/part_007 (adminController.js): deletion of an account *)

(* What is left at the id of a deleted user document: findById finds
   nothing there. *)
NoUser == [ deleted |-> TRUE ]

(* The ids at which a user document is stored. *)
LiveUserIds == { u \in UserIds : users[u] # NoUser }

(* Transaction.deleteMany({user}), PlanInstance.deleteMany({user}),
   user.deleteOne(). *)
deleteUser(uid) ==
    /\ Idle
    /\ IF uid \notin LiveUserIds
       THEN Reject("deleteUser", 0, "UserNotFound")
       ELSE /\ ledger' = { tx \in ledger : tx.user # uid }
            /\ instances' = [ i \in DOMAIN instances |->
                                 IF instances[i].user = uid
                                 THEN NullInstance ELSE instances[i] ]
            /\ users' = [ users EXCEPT ![uid] = NoUser ]
            /\ Served("deleteUser", uid, 0, 0, "ok")
            /\ UNCHANGED <<plans, settings, lottery, now>>

(* plansController.js: the admin's edits of the catalog *)

(* A field the request body does not carry, or carries as 0 or as the
   empty string: the handlers test the fields for truthiness. *)
Missing(v) == v = Undefined \/ v = 0
NoType == ""

CreatePlanError(body) ==
    IF \/ Missing(body.minAmount) \/ Missing(body.maxAmount)
       \/ body.dailyYieldType = NoType \/ Missing(body.dailyYieldValue)
       \/ Missing(body.durationDays)
    THEN "MissingField"
    ELSE IF \/ body.minAmount <= 0 \/ body.maxAmount <= 0
            \/ body.dailyYieldValue <= 0 \/ body.durationDays <= 0
         THEN "InvalidNumber"
    ELSE IF body.minAmount > body.maxAmount THEN "AmountRange"
    ELSE IF body.dailyYieldType = "percentage" /\ body.dailyYieldValue > 100
         THEN "PercentageRange"
    ELSE "ok"

createPlan(body) ==
    /\ Idle
    /\ LET err == CreatePlanError(body)
       IN IF err # "ok"
          THEN Reject("createPlan", 0, err)
          ELSE /\ Len(plans) < MaxPlans
               /\ plans' = Append(plans, body)
               /\ Served("createPlan", 0, Len(plans) + 1, 0, "ok")
               /\ UNCHANGED <<users, instances, ledger, settings, lottery, now>>

(* The plan document after the assignments of updatePlan, each field the
   body carries replacing the stored one. *)
UpdatedPlan(plan, body) ==
    [ minAmount |-> IF Missing(body.minAmount)
                    THEN plan.minAmount ELSE body.minAmount,
      maxAmount |-> IF Missing(body.maxAmount)
                    THEN plan.maxAmount ELSE body.maxAmount,
      dailyYieldType |-> IF body.dailyYieldType = NoType
                         THEN plan.dailyYieldType ELSE body.dailyYieldType,
      dailyYieldValue |-> IF Missing(body.dailyYieldValue)
                          THEN plan.dailyYieldValue ELSE body.dailyYieldValue,
      durationDays |-> IF Missing(body.durationDays)
                       THEN plan.durationDays ELSE body.durationDays ]

(* The tests of updatePlan in the order the handler makes them; the yield
   value is tested only when the body carries one, against the type as the
   body has already set it. *)
UpdatePlanError(plan, body) ==
    IF ~Missing(body.minAmount) /\ body.minAmount <= 0 THEN "InvalidMinAmount"
    ELSE IF ~Missing(body.maxAmount) /\ body.maxAmount <= 0
         THEN "InvalidMaxAmount"
    ELSE IF ~Missing(body.dailyYieldValue) /\ body.dailyYieldValue <= 0
         THEN "InvalidYield"
    ELSE IF /\ ~Missing(body.dailyYieldValue)
            /\ UpdatedPlan(plan, body).dailyYieldType = "percentage"
            /\ body.dailyYieldValue > 100
         THEN "PercentageRange"
    ELSE IF ~Missing(body.durationDays) /\ body.durationDays <= 0
         THEN "InvalidDuration"
    ELSE IF UpdatedPlan(plan, body).minAmount > UpdatedPlan(plan, body).maxAmount
         THEN "AmountRange"
    ELSE "ok"

updatePlan(planId, body) ==
    /\ Idle
    /\ IF ~PlanExists(plans, planId)
       THEN Reject("updatePlan", 0, "PlanNotFound")
       ELSE LET err == UpdatePlanError(plans[planId], body)
            IN IF err # "ok"
               THEN Reject("updatePlan", 0, err)
               ELSE /\ plans' = [ plans EXCEPT
                                     ![planId] = UpdatedPlan(@, body) ]
                    /\ Served("updatePlan", 0, planId, 0, "ok")
                    /\ UNCHANGED <<users, instances, ledger, settings,
                                   lottery, now>>

(* PlanInstance.countDocuments({ plan, status: 'active' }) finds no
   instance. *)
CountActive_None(insts, planId) == 0

(* PlanInstance.countDocuments({ plan: plan._id, status: 'active' }) *)
CountActive(insts, planId) ==
    Cardinality({ i \in 1..Len(insts) :
                    insts[i].plan = planId /\ insts[i].status = "active" })

deletePlan(planId) ==
    /\ Idle
    /\ IF ~PlanExists(plans, planId)
       THEN Reject("deletePlan", 0, "PlanNotFound")
       ELSE IF CountActive(instances, planId) > 0
       THEN Reject("deletePlan", 0, "PlanInUse")
       ELSE /\ plans' = [ plans EXCEPT ![planId] = NoPlan ]
            /\ Served("deletePlan", 0, planId, 0, "ok")
            /\ UNCHANGED <<users, instances, ledger, settings, lottery, now>>

(* unnamed/part_007 (adminController.js): blocking of accounts *)

toggleUserBlock(uid) ==
    /\ Idle
    /\ IF uid \notin UserIds
       THEN Reject("block", 0, "UserNotFound")
       ELSE /\ users' = [ users EXCEPT ![uid].isBlocked = ~@ ]
            /\ Served("block", uid, 0, 0, "ok")
            /\ UNCHANGED <<instances, ledger, plans, settings, lottery, now>>

----------------------------------------------------------------------------
(* adminController.js:274-511 and userController.js:1-319: the earlier
   handlers of the wallet, kept in the repository next to the later ones *)

createWithdrawalRequest_v1(uid, amount) ==
    /\ Idle
    /\ uid \in UserIds
    /\ LET user == users[uid]
           err == IF ~user.hasDeposited THEN "NeverDeposited"
                  ELSE IF amount = 0 THEN "InvalidAmount"
                  ELSE IF amount > user.walletBalance THEN "InsufficientFunds"
                  ELSE "ok"
       IN IF err # "ok"
          THEN Reject("withdraw", uid, err)
          ELSE /\ Room(ledger, 1)
               /\ ledger' = Create(ledger,
                      NewTransaction(uid, "withdrawal", amount, "pending", 0, 0))
               /\ Served("withdraw", uid, 0, amount, "ok")
               /\ UNCHANGED <<users, instances, plans, settings, lottery, now>>

approveWithdrawal_v1(tx) ==
    /\ Idle
    /\ IF ~Pending(ledger, tx, "withdrawal")
       THEN Refuse("approveWithdrawal", tx, "withdrawal")
       ELSE IF users[tx.user].walletBalance < tx.amount
            THEN /\ ledger' = Settle(ledger, tx, "rejected")
                 /\ Served("approveWithdrawal", tx.user, 0, tx.amount,
                           "InsufficientFunds")
                 /\ UNCHANGED <<users, instances, plans, settings, lottery, now>>
            ELSE /\ users' = [ users EXCEPT
                        ![tx.user].walletBalance = @ - tx.amount ]
                 /\ ledger' = Settle(ledger, tx, "approved")
                 /\ Served("approveWithdrawal", tx.user, 0, tx.amount, "ok")
                 /\ UNCHANGED <<instances, plans, settings, lottery, now>>

(* walletBalance ?? user.walletBalance: the body's value unless it is absent *)
updateUserBalance_v1(uid, walletBalance, bonusBalance) ==
    /\ Idle
    /\ IF uid \notin UserIds
       THEN Reject("updateBalance", 0, "UserNotFound")
       ELSE /\ users' = [ users EXCEPT
                  ![uid].walletBalance =
                      IF walletBalance # Undefined THEN walletBalance ELSE @,
                  ![uid].bonusBalance =
                      IF bonusBalance # Undefined THEN bonusBalance ELSE @ ]
            /\ Served("updateBalance", uid, 0, 0, "ok")
            /\ UNCHANGED <<instances, ledger, plans, settings, lottery, now>>

----------------------------------------------------------------------------
Tick ==
    /\ Idle
    /\ now < MaxTime
    /\ now' = now + 1
    /\ UNCHANGED <<users, instances, ledger, plans, settings, lottery, last, pre, procs>>

Init ==
    /\ users = << >>
    /\ instances = << >>
    /\ ledger = {}
    /\ plans = InitialPlans
    /\ settings = DefaultSettings
    /\ lottery = NoLottery
    /\ now = 0
    /\ last = NoRequest
    /\ pre = NoSnapshot
    /\ procs = << >>

(* Request inputs *)
InvestAmounts == {40, 60}
DepositAmounts == {20, 100}
WithdrawalAmounts == {50, 100}
BalanceInputs == {Undefined, -10, 100}
BalanceBodies == { <<-10, Undefined>>, <<Undefined, -10>>, <<100, Undefined>> }
OtherSettings ==
    [ DefaultSettings EXCEPT !.referralCommissionRate = 10,
                             !.dailyCommissionRate = 5,
                             !.withdrawalFee = 10 ]
SettingsBodies ==
    { DefaultSettings, OtherSettings,
      [ DefaultSettings EXCEPT !.dailyCommissionRate = 150 ] }

(* Requests of the plan engine, registration and deposits, with their
   settlement by the admin. *)
EngineRequest ==
    \/ \E i \in 0..MaxUsers : registerUser(i)
    \/ \E u \in UserIds, p \in 1..(Len(plans) + 1), a \in InvestAmounts :
           activatePlan(u, p, a)
    \/ \E u \in UserIds, p \in 1..(Len(plans) + 1) : upgradePlan(u, p)
    \/ \E u \in UserIds : collectDailyProfit(u)
    \/ \E u \in UserIds, i \in 1..(Len(instances) + 1) : renewPlan(u, i)
    \/ \E u \in UserIds, a \in DepositAmounts : createDepositRequest(u, a)
    \/ \E t \in ledger \cup {NoTransaction} : approveDeposit(t)
    \/ \E t \in ledger \cup {NoTransaction} : rejectDeposit(t)
    \/ \E body \in SettingsBodies : updateSettings(body)
    \/ \E u \in UserIds : getAllAvailablePlans(u)
    \/ \E u \in UserIds : getDashboardData(u)

(* Withdrawals, the lottery and the admin's balance edits. *)
WalletRequest ==
    \/ \E u \in UserIds, a \in WithdrawalAmounts : createWithdrawalRequest(u, a)
    \/ \E t \in ledger \cup {NoTransaction} : approveWithdrawal(t)
    \/ \E t \in ledger \cup {NoTransaction} : rejectWithdrawal(t)
    \/ \E u \in UserIds, z \in 5..6 : redeemLotteryCode(u, z)
    \/ \E u \in UserIds, w \in BalanceInputs, b \in BalanceInputs :
           updateUserBalance(u, w, b)
    \/ createLotteryCode(5, 6, 1, 1)

Next ==
    \/ EngineRequest
    \/ Respond
    \/ Tick

Spec == Init /\ [][Next]_vars

(* The wallet as the earlier handlers run it: deposits, withdrawals and the
   admin's balance edits of adminController.js:274-511. *)
WalletRequest_v1 ==
    \/ \E i \in 0..MaxUsers : registerUser(i)
    \/ \E u \in UserIds, a \in DepositAmounts : createDepositRequest(u, a)
    \/ \E t \in ledger \cup {NoTransaction} : approveDeposit(t)
    \/ \E u \in UserIds, a \in WithdrawalAmounts : createWithdrawalRequest_v1(u, a)
    \/ \E t \in ledger \cup {NoTransaction} : approveWithdrawal_v1(t)
    \/ \E u \in 1..MaxUsers, body \in BalanceBodies :
           updateUserBalance_v1(u, body[1], body[2])

(* The wallet as the later handlers run it: deposits and withdrawals with
   their settlement by the admin, the fee being changed in between. *)
NextW ==
    \/ \E i \in 0..MaxUsers : registerUser(i)
    \/ \E u \in UserIds, p \in PlanIds, a \in InvestAmounts : activatePlan(u, p, a)
    \/ \E u \in UserIds, a \in DepositAmounts : createDepositRequest(u, a)
    \/ \E t \in ledger \cup {NoTransaction} : approveDeposit(t)
    \/ \E t \in ledger \cup {NoTransaction} : rejectDeposit(t)
    \/ \E u \in UserIds, a \in WithdrawalAmounts : createWithdrawalRequest(u, a)
    \/ \E t \in ledger \cup {NoTransaction} : approveWithdrawal(t)
    \/ \E t \in ledger \cup {NoTransaction} : rejectWithdrawal(t)
    \/ \E body \in {DefaultSettings, OtherSettings} : updateSettings(body)
    \/ Respond

SpecW == Init /\ [][NextW]_vars

NextV1 ==
    \/ WalletRequest_v1
    \/ Respond

SpecV1 == Init /\ [][NextV1]_vars

(* The requests as the router mounts them: every user route behind
   protectUser, the admin routes of the wallet, the lottery and the
   blocking of accounts beside them. *)
NextR ==
    \/ \E i \in 0..MaxUsers : registerUser(i)
    \/ \E u \in 1..(Len(users) + 1) : toggleUserBlock(u)
    \/ \E u \in 1..(Len(users) + 1), p \in PlanIds :
           protectUser(u, "activate", activatePlan(u, p, 40))
    \/ \E u \in UserIds : protectUser(u, "collect", collectDailyProfit(u))
    \/ \E u \in UserIds, p \in PlanIds :
           protectUser(u, "upgrade", upgradePlan(u, p))
    \/ \E u \in UserIds, i \in InstanceIds :
           protectUser(u, "renew", renewPlan(u, i))
    \/ \E u \in UserIds :
           protectUser(u, "deposit", createDepositRequest(u, 100))
    \/ \E u \in UserIds :
           protectUser(u, "withdraw", createWithdrawalRequest(u, 100))
    \/ \E u \in UserIds, z \in 5..6 :
           protectUser(u, "redeem", redeemLotteryCode(u, z))
    \/ \E t \in ledger : approveDeposit(t)
    \/ \E t \in ledger : approveWithdrawal(t)
    \/ \E u \in UserIds, body \in BalanceBodies :
           updateUserBalance(u, body[1], body[2])
    \/ createLotteryCode(5, 6, 1, 1)
    \/ Respond

SpecR == Init /\ [][NextR]_vars

(* Request bodies of the catalog routes. *)
NoFields ==
    [ minAmount |-> Undefined, maxAmount |-> Undefined,
      dailyYieldType |-> NoType, dailyYieldValue |-> Undefined,
      durationDays |-> Undefined ]
CreatePlanBodies ==
    { [ minAmount |-> 40, maxAmount |-> 60, dailyYieldType |-> "fixed",
        dailyYieldValue |-> 150, durationDays |-> 1 ],
      [ minAmount |-> 40, maxAmount |-> 60, dailyYieldType |-> "percentage",
        dailyYieldValue |-> 150, durationDays |-> 1 ],
      [ minAmount |-> 60, maxAmount |-> 40, dailyYieldType |-> "fixed",
        dailyYieldValue |-> 20, durationDays |-> 1 ],
      [ minAmount |-> 40, maxAmount |-> 60, dailyYieldType |-> "fixed",
        dailyYieldValue |-> -5, durationDays |-> 1 ],
      [ NoFields EXCEPT !.minAmount = 40 ] }
UpdatePlanBodies ==
    { [ NoFields EXCEPT !.dailyYieldType = "percentage" ],
      [ NoFields EXCEPT !.dailyYieldType = "fixed" ],
      [ NoFields EXCEPT !.dailyYieldValue = 150 ],
      [ NoFields EXCEPT !.dailyYieldValue = -5 ],
      [ NoFields EXCEPT !.minAmount = 200 ],
      [ NoFields EXCEPT !.maxAmount = -5 ],
      [ NoFields EXCEPT !.durationDays = -1 ] }

(* The catalog under the admin's edits, with one account activating and
   collecting on it. *)
NextP ==
    \/ Len(users) < 1 /\ registerUser(0)
    \/ \E u \in UserIds, p \in PlanIds, a \in InvestAmounts :
           activatePlan(u, p, a)
    \/ \E u \in UserIds : collectDailyProfit(u)
    \/ \E body \in CreatePlanBodies : createPlan(body)
    \/ \E p \in 1..(Len(plans) + 1), body \in UpdatePlanBodies :
           updatePlan(p, body)
    \/ Respond
    \/ Tick

SpecP == Init /\ [][NextP]_vars

(* Two accounts that activate, collect and renew on the catalog, and the
   admin who deletes plans. *)
NextT ==
    \/ registerUser(0)
    \/ \E u \in UserIds, p \in 1..(Len(plans) + 1), a \in InvestAmounts :
           activatePlan(u, p, a)
    \/ \E u \in UserIds : collectDailyProfit(u)
    \/ \E u \in UserIds, i \in 1..(Len(instances) + 1) : renewPlan(u, i)
    \/ \E p \in 1..(Len(plans) + 1) : deletePlan(p)
    \/ Respond
    \/ Tick

SpecT == Init /\ [][NextT]_vars

(* The active instance of account u is past its endDate. *)
Lapsed(u) ==
    /\ u \in UserIds
    /\ users[u].activePlanInstance # 0
    /\ now > instances[users[u].activePlanInstance].endDate

(* The collect request of an account whose instance is past its endDate. *)
CollectOfLapsed(u) == Lapsed(u) /\ collectDailyProfit(u)

(* The requests of the plan engine on the initial catalog. *)
NextL ==
    \/ registerUser(0)
    \/ \E u \in UserIds, p \in 1..(Len(plans) + 1), a \in InvestAmounts :
           activatePlan(u, p, a)
    \/ \E u \in UserIds, p \in 1..(Len(plans) + 1) : upgradePlan(u, p)
    \/ \E u \in UserIds : collectDailyProfit(u)
    \/ \E u \in UserIds, i \in 1..(Len(instances) + 1) : renewPlan(u, i)
    \/ Respond
    \/ Tick

(* Every request is answered, and the owner of an instance past its endDate
   sends a collect request that the server, which takes the requests in
   turn, gets to serve. *)
SpecL ==
    /\ Init
    /\ [][NextL]_vars
    /\ WF_vars(Respond)
    /\ \A u \in 1..MaxUsers : SF_vars(CollectOfLapsed(u))

(* Accounts that register without referrer, deposit and activate, and the
   admin who approves deposits and deletes accounts. *)
NextD ==
    \/ registerUser(0)
    \/ \E u \in LiveUserIds, p \in PlanIds, a \in InvestAmounts :
           activatePlan(u, p, a)
    \/ \E u \in LiveUserIds, a \in DepositAmounts : createDepositRequest(u, a)
    \/ \E t \in ledger : approveDeposit(t)
    \/ \E u \in 1..(Len(users) + 1) : deleteUser(u)
    \/ Respond

SpecD == Init /\ [][NextD]_vars

----------------------------------------------------------------------------
(* Interleaved runs.  Each client has one request in flight; the handler
   runs up to its next await of the database, which is one step.  A request
   holds the documents as it loaded them (user0, inst0), its working copies
   (user, inst, tx) and its position (pc).  The settings and the catalog do
   not change in these runs, so reading them is part of the step that uses
   them. *)

Clients == 1..MaxClients

NullUser == NewUser(0)

IdleRequest ==
    [ pc |-> "idle", op |-> "none", uid |-> 0, arg |-> 0, amt |-> 0,
      ref |-> 0, commission |-> 0, cost |-> 0, resp |-> "none",
      failedAt |-> "none",
      user0 |-> NullUser, user |-> NullUser,
      inst0 |-> NullInstance, inst |-> NullInstance,
      tx |-> NoTransaction ]

(* res.json(...) or the error handler: the request ends with a response. *)
Done(r, resp, cost, commission) ==
    [ IdleRequest EXCEPT !.pc = "done", !.op = r.op, !.uid = r.uid,
                         !.arg = r.arg, !.amt = r.amt, !.tx = r.tx,
                         !.ref = IF commission = 0 THEN 0 ELSE r.ref,
                         !.resp = resp, !.cost = cost,
                         !.commission = commission ]

(* doc.save(): the paths modified since the document was loaded are written,
   the others are left as they are stored. *)
Save(stored, loaded, doc) ==
    [ f \in DOMAIN stored |-> IF doc[f] # loaded[f] THEN doc[f] ELSE stored[f] ]

At(p, pc) == procs[p].pc = pc

(* The state the interleaved runs start from: user 1 registered, had a
   deposit of 300 approved, activated plan 1 with 40 of the welcome bonus and
   asked for two withdrawals (100 and 200, 3% fee); user 2 registered as the
   invitee of user 1 and had a deposit of 100 approved. *)
SeedUsers ==
    << [ walletBalance |-> 300, bonusBalance |-> 10, invitedBy |-> 0,
         activePlanInstance |-> 1, hasDeposited |-> TRUE,
         hasActivatedPlan |-> TRUE, isBlocked |-> FALSE ],
       [ walletBalance |-> 100, bonusBalance |-> 50, invitedBy |-> 1,
         activePlanInstance |-> 0, hasDeposited |-> TRUE,
         hasActivatedPlan |-> FALSE, isBlocked |-> FALSE ] >>

SeedInstances == << NewPlanInstance(1, 1, 40, 20, 0, 2) >>

SeedLedger ==
    { [ NewTransaction(1, "welcome_bonus", 50, "approved", 0, 0) EXCEPT !.seq = 1 ],
      [ NewTransaction(1, "deposit", 300, "approved", 0, 0) EXCEPT !.seq = 1 ],
      [ NewTransaction(1, "investment", -40, DefaultStatus, 0, 0) EXCEPT !.seq = 1 ],
      [ NewTransaction(1, "withdrawal", -100, "pending", 103, 0) EXCEPT !.seq = 1 ],
      [ NewTransaction(1, "withdrawal", -200, "pending", 206, 0) EXCEPT !.seq = 2 ],
      [ NewTransaction(2, "welcome_bonus", 50, "approved", 0, 0) EXCEPT !.seq = 1 ],
      [ NewTransaction(2, "deposit", 100, "approved", 0, 0) EXCEPT !.seq = 1 ] }

InitC ==
    /\ users = SeedUsers
    /\ instances = SeedInstances
    /\ ledger = SeedLedger
    /\ plans = InitialPlans
    /\ settings = DefaultSettings
    /\ lottery = NoLottery
    /\ now = 0
    /\ last = NoRequest
    /\ pre = NoSnapshot
    /\ procs = [ p \in Clients |-> IdleRequest ]

(* plansController.js: collectDailyProfit, step by step *)

collect_findUser(p, uid) ==
    /\ At(p, "idle")
    /\ uid \in UserIds
    /\ procs' = [ procs EXCEPT ![p] =
           [ IdleRequest EXCEPT !.pc = "collect_populate", !.op = "collect",
                                !.uid = uid, !.user0 = users[uid],
                                !.user = users[uid] ] ]
    /\ UNCHANGED <<users, instances, ledger, plans, settings, lottery, now, last, pre>>

collect_populate(p) ==
    /\ At(p, "collect_populate")
    /\ LET r == procs[p]
           planInstance == Populate(instances, r.user.activePlanInstance)
           err == CollectError(r.user, planInstance, now)
           profit == planInstance.dailyProfit
       IN procs' = [ procs EXCEPT ![p] =
              CASE err = "PlanExpired" ->
                     [ r EXCEPT !.pc = "collect_expire_saveInstance",
                                !.inst0 = planInstance,
                                !.inst = [ planInstance EXCEPT !.status = "expired" ] ]
                [] err = "ok" ->
                     [ r EXCEPT !.pc = "collect_saveUser",
                                !.amt = profit,
                                !.user = [ @ EXCEPT !.walletBalance = @ + profit ],
                                !.inst0 = planInstance,
                                !.inst = [ planInstance EXCEPT
                                             !.lastCollectedDate = now,
                                             !.totalCollected = @ + profit ] ]
                [] OTHER -> Done(r, err, 0, 0) ]
    /\ UNCHANGED <<users, instances, ledger, plans, settings, lottery, now, last, pre>>

collect_expire_saveInstance(p) ==
    /\ At(p, "collect_expire_saveInstance")
    /\ LET r == procs[p]
           iid == r.user.activePlanInstance
       IN /\ instances' = [ instances EXCEPT ![iid] = Save(@, r.inst0, r.inst) ]
          /\ procs' = [ procs EXCEPT ![p] =
                 [ r EXCEPT !.pc = "collect_expire_saveUser",
                            !.user = [ @ EXCEPT !.activePlanInstance = 0 ] ] ]
    /\ UNCHANGED <<users, ledger, plans, settings, lottery, now, last, pre>>

collect_expire_saveUser(p) ==
    /\ At(p, "collect_expire_saveUser")
    /\ LET r == procs[p]
       IN /\ users' = [ users EXCEPT ![r.uid] = Save(@, r.user0, r.user) ]
          /\ procs' = [ procs EXCEPT ![p] = Done(r, "PlanExpired", 0, 0) ]
    /\ UNCHANGED <<instances, ledger, plans, settings, lottery, now, last, pre>>

collect_saveUser(p) ==
    /\ At(p, "collect_saveUser")
    /\ LET r == procs[p]
       IN /\ users' = [ users EXCEPT ![r.uid] = Save(@, r.user0, r.user) ]
          /\ procs' = [ procs EXCEPT ![p].pc = "collect_saveInstance" ]
    /\ UNCHANGED <<instances, ledger, plans, settings, lottery, now, last, pre>>

collect_saveInstance(p) ==
    /\ At(p, "collect_saveInstance")
    /\ LET r == procs[p]
           iid == r.user.activePlanInstance
       IN /\ instances' = [ instances EXCEPT ![iid] = Save(@, r.inst0, r.inst) ]
          /\ procs' = [ procs EXCEPT ![p].pc = "collect_createTransaction" ]
    /\ UNCHANGED <<users, ledger, plans, settings, lottery, now, last, pre>>

collect_createTransaction(p) ==
    /\ At(p, "collect_createTransaction")
    /\ LET r == procs[p]
       IN /\ ledger' = Create(ledger, NewTransaction(r.uid, "collection", r.amt,
                                                     "approved", 0, 0))
          /\ procs' = [ procs EXCEPT ![p] =
                 IF r.user.invitedBy # 0
                 THEN [ r EXCEPT !.pc = "findReferrer", !.ref = r.user.invitedBy,
                                 !.commission = DailyCommission(r.amt, settings) ]
                 ELSE Done(r, "ok", -r.amt, 0) ]
    /\ UNCHANGED <<users, instances, plans, settings, lottery, now, last, pre>>

(* The commission block of activatePlan and of collectDailyProfit, step by
   step. `cost` is what the request took from its own account's wallet
   (negative for a credit). *)

OwnCost(r) ==
    IF r.op = "collect" THEN -r.amt ELSE r.cost

findReferrer(p) ==
    /\ At(p, "findReferrer")
    /\ LET r == procs[p]
       IN procs' = [ procs EXCEPT ![p] =
              IF ReferrerOf(r.user, users) = 0
              THEN Done(r, "ok", OwnCost(r), 0)
              ELSE [ r EXCEPT !.pc = "saveReferrer",
                              !.user0 = users[r.ref],
                              !.user = [ users[r.ref] EXCEPT
                                           !.walletBalance = @ + r.commission ] ] ]
    /\ UNCHANGED <<users, instances, ledger, plans, settings, lottery, now, last, pre>>

saveReferrer(p) ==
    /\ At(p, "saveReferrer")
    /\ LET r == procs[p]
       IN /\ users' = [ users EXCEPT ![r.ref] = Save(@, r.user0, r.user) ]
          /\ procs' = [ procs EXCEPT ![p].pc = "createCommission" ]
    /\ UNCHANGED <<instances, ledger, plans, settings, lottery, now, last, pre>>

createCommission(p) ==
    /\ At(p, "createCommission")
    /\ LET r == procs[p]
       IN /\ ledger' = Create(ledger, NewTransaction(r.ref, "commission",
                                  r.commission, "approved", 0, r.uid))
          /\ procs' = [ procs EXCEPT ![p] = Done(r, "ok", OwnCost(r), r.commission) ]
    /\ UNCHANGED <<users, instances, plans, settings, lottery, now, last, pre>>

(* plansController.js: activatePlan, step by step *)

activate_findUser(p, uid, planId, investedAmount) ==
    /\ At(p, "idle")
    /\ uid \in UserIds
    /\ LET user == users[uid]
           err == ActivateError(user, planId, investedAmount, plans)
           r == [ IdleRequest EXCEPT !.op = "activate", !.uid = uid,
                                     !.arg = planId, !.amt = investedAmount,
                                     !.user0 = user ]
       IN procs' = [ procs EXCEPT ![p] =
              IF err # "ok"
              THEN Done(r, err, 0, 0)
              ELSE [ r EXCEPT !.pc = "activate_createInstance",
                              !.cost = RealAmountToPay(user, investedAmount),
                              !.user = ActivatedUser(user, investedAmount,
                                           user.activePlanInstance) ] ]
    /\ UNCHANGED <<users, instances, ledger, plans, settings, lottery, now, last, pre>>

activate_createInstance(p) ==
    /\ At(p, "activate_createInstance")
    /\ LET r == procs[p]
           plan == plans[r.arg]
       IN /\ instances' = Append(instances,
                 NewPlanInstance(r.uid, r.arg, r.amt, DailyProfitOf(plan, r.amt),
                                 now, EndDateOf(now, plan)))
          /\ procs' = [ procs EXCEPT ![p] =
                 [ r EXCEPT !.pc = "activate_saveUser",
                            !.user = [ @ EXCEPT !.activePlanInstance =
                                                    Len(instances) + 1 ] ] ]
    /\ UNCHANGED <<users, ledger, plans, settings, lottery, now, last, pre>>

activate_saveUser(p) ==
    /\ At(p, "activate_saveUser")
    /\ LET r == procs[p]
       IN /\ users' = [ users EXCEPT ![r.uid] = Save(@, r.user0, r.user) ]
          /\ procs' = [ procs EXCEPT ![p].pc = "activate_createTransaction" ]
    /\ UNCHANGED <<instances, ledger, plans, settings, lottery, now, last, pre>>

activate_createTransaction(p) ==
    /\ At(p, "activate_createTransaction")
    /\ LET r == procs[p]
       IN /\ ledger' = Create(ledger, NewTransaction(r.uid, "investment", -r.amt,
                                                     "approved", 0, 0))
          /\ procs' = [ procs EXCEPT ![p] =
                 IF r.user.invitedBy # 0
                 THEN [ r EXCEPT !.pc = "findReferrer", !.ref = r.user.invitedBy,
                                 !.commission = ReferralCommission(r.amt, settings) ]
                 ELSE Done(r, "ok", r.cost, 0) ]
    /\ UNCHANGED <<users, instances, plans, settings, lottery, now, last, pre>>

(* plansController.js: upgradePlan, step by step *)

upgrade_findUser(p, uid, newPlanId) ==
    /\ At(p, "idle")
    /\ uid \in UserIds
    /\ LET user == users[uid]
           err == UpgradeError(user, newPlanId, instances, plans)
           r == [ IdleRequest EXCEPT !.op = "upgrade", !.uid = uid,
                                     !.arg = newPlanId, !.user0 = user ]
       IN procs' = [ procs EXCEPT ![p] =
              IF err # "ok"
              THEN Done(r, err, 0, 0)
              ELSE LET oldPlanInstance == instances[user.activePlanInstance]
                       priceDifference == plans[newPlanId].minAmount
                                          - plans[oldPlanInstance.plan].minAmount
                   IN [ r EXCEPT !.pc = "upgrade_saveOldInstance",
                                 !.cost = priceDifference,
                                 !.user = [ user EXCEPT
                                              !.walletBalance = @ - priceDifference ],
                                 !.inst0 = oldPlanInstance,
                                 !.inst = [ oldPlanInstance EXCEPT
                                              !.status = "expired" ] ] ]
    /\ UNCHANGED <<users, instances, ledger, plans, settings, lottery, now, last, pre>>

upgrade_saveOldInstance(p) ==
    /\ At(p, "upgrade_saveOldInstance")
    /\ LET r == procs[p]
           old == r.user0.activePlanInstance
       IN /\ instances' = [ instances EXCEPT ![old] = Save(@, r.inst0, r.inst) ]
          /\ procs' = [ procs EXCEPT ![p].pc = "upgrade_createInstance" ]
    /\ UNCHANGED <<users, ledger, plans, settings, lottery, now, last, pre>>

upgrade_createInstance(p) ==
    /\ At(p, "upgrade_createInstance")
    /\ LET r == procs[p]
           newPlan == plans[r.arg]
       IN /\ instances' = Append(instances,
                 NewPlanInstance(r.uid, r.arg, newPlan.minAmount,
                                 DailyProfitOf(newPlan, newPlan.minAmount),
                                 now, EndDateOf(now, newPlan)))
          /\ procs' = [ procs EXCEPT ![p] =
                 [ r EXCEPT !.pc = "upgrade_saveUser",
                            !.user = [ @ EXCEPT !.activePlanInstance =
                                                    Len(instances) + 1 ] ] ]
    /\ UNCHANGED <<users, ledger, plans, settings, lottery, now, last, pre>>

upgrade_saveUser(p) ==
    /\ At(p, "upgrade_saveUser")
    /\ LET r == procs[p]
       IN /\ users' = [ users EXCEPT ![r.uid] = Save(@, r.user0, r.user) ]
          /\ procs' = [ procs EXCEPT ![p].pc = "upgrade_createTransaction" ]
    /\ UNCHANGED <<instances, ledger, plans, settings, lottery, now, last, pre>>

upgrade_createTransaction(p) ==
    /\ At(p, "upgrade_createTransaction")
    /\ LET r == procs[p]
       IN /\ ledger' = Create(ledger, NewTransaction(r.uid, "investment", -r.cost,
                                                     "approved", 0, 0))
          /\ procs' = [ procs EXCEPT ![p] = Done(r, "ok", r.cost, 0) ]
    /\ UNCHANGED <<users, instances, plans, settings, lottery, now, last, pre>>

(* unnamed/part_007: approveWithdrawal, step by step *)

approve_findTransaction(p, tx) ==
    /\ At(p, "idle")
    /\ LET r == [ IdleRequest EXCEPT !.op = "approveWithdrawal", !.tx = tx,
                                     !.uid = tx.user ]
       IN procs' = [ procs EXCEPT ![p] =
              IF ~Pending(ledger, tx, "withdrawal")
              THEN Done(r, "InvalidOrProcessed", 0, 0)
              ELSE [ r EXCEPT !.pc = "approve_findUser" ] ]
    /\ UNCHANGED <<users, instances, ledger, plans, settings, lottery, now, last, pre>>

approve_findUser(p) ==
    /\ At(p, "approve_findUser")
    /\ LET r == procs[p]
           user == users[r.tx.user]
           totalDeducted == r.tx.totalDeducted
       IN procs' = [ procs EXCEPT ![p] =
              IF user.walletBalance < totalDeducted
              THEN [ r EXCEPT !.pc = "approve_saveRejected" ]
              ELSE [ r EXCEPT !.pc = "approve_saveUser",
                              !.cost = totalDeducted,
                              !.user0 = user,
                              !.user = [ user EXCEPT
                                           !.walletBalance = @ - totalDeducted ] ] ]
    /\ UNCHANGED <<users, instances, ledger, plans, settings, lottery, now, last, pre>>

approve_saveRejected(p) ==
    /\ At(p, "approve_saveRejected")
    /\ LET r == procs[p]
       IN /\ ledger' = Settle(ledger, r.tx, "rejected")
          /\ procs' = [ procs EXCEPT ![p] = Done(r, "InsufficientFunds", 0, 0) ]
    /\ UNCHANGED <<users, instances, plans, settings, lottery, now, last, pre>>

approve_saveUser(p) ==
    /\ At(p, "approve_saveUser")
    /\ LET r == procs[p]
       IN /\ users' = [ users EXCEPT ![r.uid] = Save(@, r.user0, r.user) ]
          /\ procs' = [ procs EXCEPT ![p].pc = "approve_saveTransaction" ]
    /\ UNCHANGED <<instances, ledger, plans, settings, lottery, now, last, pre>>

approve_saveTransaction(p) ==
    /\ At(p, "approve_saveTransaction")
    /\ LET r == procs[p]
       IN /\ ledger' = Settle(ledger, r.tx, "approved")
          /\ procs' = [ procs EXCEPT ![p] = Done(r, "ok", r.cost, 0) ]
    /\ UNCHANGED <<users, instances, plans, settings, lottery, now, last, pre>>

NextC ==
    \/ Tick
    \/ \E p \in Clients :
          \/ \E u \in UserIds : collect_findUser(p, u)
          \/ collect_populate(p)
          \/ collect_expire_saveInstance(p)
          \/ collect_expire_saveUser(p)
          \/ collect_saveUser(p)
          \/ collect_saveInstance(p)
          \/ collect_createTransaction(p)
          \/ findReferrer(p)
          \/ saveReferrer(p)
          \/ createCommission(p)
          \/ \E u \in UserIds, pl \in PlanIds, a \in InvestAmounts :
                 activate_findUser(p, u, pl, a)
          \/ activate_createInstance(p)
          \/ activate_saveUser(p)
          \/ activate_createTransaction(p)
          \/ \E u \in UserIds, pl \in PlanIds : upgrade_findUser(p, u, pl)
          \/ upgrade_saveOldInstance(p)
          \/ upgrade_createInstance(p)
          \/ upgrade_saveUser(p)
          \/ upgrade_createTransaction(p)
          \/ \E t \in ledger : approve_findTransaction(p, t)
          \/ approve_findUser(p)
          \/ approve_saveRejected(p)
          \/ approve_saveUser(p)
          \/ approve_saveTransaction(p)

SpecC == InitC /\ [][NextC]_vars

----------------------------------------------------------------------------
(* Interleaved runs in which a call of the database can fail.  The handlers
   are wrapped in asyncHandler and have no try/catch and no session: a
   rejected await ends the handler where it stands, the error goes to the
   error middleware, and what was written before stays written. *)

(* unnamed/part_007: approveDeposit, step by step *)

approveDeposit_findTransaction(p, tx) ==
    /\ At(p, "idle")
    /\ LET r == [ IdleRequest EXCEPT !.op = "approveDeposit", !.tx = tx,
                                     !.uid = tx.user ]
       IN procs' = [ procs EXCEPT ![p] =
              IF ~Pending(ledger, tx, "deposit")
              THEN Done(r, "InvalidOrProcessed", 0, 0)
              ELSE [ r EXCEPT !.pc = "approveDeposit_findUser" ] ]
    /\ UNCHANGED <<users, instances, ledger, plans, settings, lottery, now, last, pre>>

approveDeposit_findUser(p) ==
    /\ At(p, "approveDeposit_findUser")
    /\ LET r == procs[p]
           user == users[r.tx.user]
       IN procs' = [ procs EXCEPT ![p] =
              [ r EXCEPT !.pc = "approveDeposit_saveUser",
                         !.cost = -r.tx.amount,
                         !.user0 = user,
                         !.user = [ user EXCEPT
                                      !.walletBalance = @ + r.tx.amount,
                                      !.hasDeposited = TRUE ] ] ]
    /\ UNCHANGED <<users, instances, ledger, plans, settings, lottery, now, last, pre>>

approveDeposit_saveUser(p) ==
    /\ At(p, "approveDeposit_saveUser")
    /\ LET r == procs[p]
       IN /\ users' = [ users EXCEPT ![r.uid] = Save(@, r.user0, r.user) ]
          /\ procs' = [ procs EXCEPT ![p].pc = "approveDeposit_saveTransaction" ]
    /\ UNCHANGED <<instances, ledger, plans, settings, lottery, now, last, pre>>

approveDeposit_saveTransaction(p) ==
    /\ At(p, "approveDeposit_saveTransaction")
    /\ LET r == procs[p]
       IN /\ ledger' = Settle(ledger, r.tx, "approved")
          /\ procs' = [ procs EXCEPT ![p] = Done(r, "ok", r.cost, 0) ]
    /\ UNCHANGED <<users, instances, plans, settings, lottery, now, last, pre>>

(* The await a request stands at rejects: the handler ends with an error
   response and writes nothing more. *)
dbFailure(p) ==
    /\ ~At(p, "idle")
    /\ ~At(p, "done")
    /\ procs' = [ procs EXCEPT ![p] =
           [ Done(procs[p], "ServerError", 0, 0) EXCEPT !.failedAt = procs[p].pc ] ]
    /\ UNCHANGED <<users, instances, ledger, plans, settings, lottery, now, last, pre>>

(* The seed of the interleaved runs, with one more deposit request of user 2
   waiting for the admin. *)
SeedLedgerF ==
    SeedLedger \cup
        { [ NewTransaction(2, "deposit", 100, "pending", 0, 0) EXCEPT !.seq = 2 ] }

InitF ==
    /\ users = SeedUsers
    /\ instances = SeedInstances
    /\ ledger = SeedLedgerF
    /\ plans = InitialPlans
    /\ settings = DefaultSettings
    /\ lottery = NoLottery
    /\ now = 0
    /\ last = NoRequest
    /\ pre = NoSnapshot
    /\ procs = [ p \in Clients |-> IdleRequest ]

NextF ==
    \/ NextC
    \/ \E p \in Clients :
          \/ \E t \in ledger : approveDeposit_findTransaction(p, t)
          \/ approveDeposit_findUser(p)
          \/ approveDeposit_saveUser(p)
          \/ approveDeposit_saveTransaction(p)
          \/ dbFailure(p)

SpecF == InitF /\ [][NextF]_vars

----------------------------------------------------------------------------
(* Properties of the sequential runs.  A response state is a state whose
   `last` names the request just served; `pre` holds the collections as the
   handler found them. *)

Ok(op) == last.op = op /\ last.resp = "ok"

(* C1: every account has walletBalance >= 0 and bonusBalance >= 0 in every
   reachable state. *)
C1_BalancesNonNegative ==
    \A u \in UserIds :
        users[u].walletBalance >= 0 /\ users[u].bonusBalance >= 0

(* The amounts the handlers compute are whole numbers on the inputs of the
   model, so \div loses nothing. *)
ExactArithmetic ==
    /\ \A p \in PlanIds, a \in InvestAmounts :
           plans[p].dailyYieldType = "percentage" =>
               (a * plans[p].dailyYieldValue) % 100 = 0
    /\ \A body \in SettingsBodies, a \in InvestAmounts :
           (a * body.referralCommissionRate) % 100 = 0
    /\ \A body \in SettingsBodies, i \in InstanceIds :
           (instances[i].dailyProfit * body.dailyCommissionRate) % 100 = 0

(* The instance a collect request was about. *)
CollectedInstance == pre.users[last.uid].activePlanInstance

(* A collect was served less than 24 hours after a successful collect on the
   same instance. *)
WithinWindow ==
    /\ last.op = "collect"
    /\ CollectedInstance # 0
    /\ pre.instances[CollectedInstance].lastCollectedDate # NoDate
    /\ now - pre.instances[CollectedInstance].lastCollectedDate < TWENTY_FOUR_HOURS

NoCredit ==
    /\ users[last.uid].walletBalance = pre.users[last.uid].walletBalance
    /\ instances[CollectedInstance].lastCollectedDate =
           pre.instances[CollectedInstance].lastCollectedDate
    /\ instances[CollectedInstance].totalCollected =
           pre.instances[CollectedInstance].totalCollected
    /\ ledger = pre.ledger

(* C5, as stated: a collect less than 24 hours after a successful collect on
   the same instance fails with CollectionNotYetAvailable and leaves
   walletBalance, lastCollectedDate, totalCollected and the ledger
   unchanged. *)
C5_CollectIdempotent ==
    WithinWindow => (last.resp = "CollectionNotYetAvailable" /\ NoCredit)

(* C5, amended: a collect less than 24 hours after a successful collect on
   the same instance makes no credit (walletBalance, lastCollectedDate,
   totalCollected and the ledger are unchanged); it fails with
   CollectionNotYetAvailable while the instance's endDate has not passed and
   with PlanExpired once it has. *)
C5_CollectIdempotentUntilExpiry ==
    WithinWindow =>
        /\ last.resp =
               IF now <= pre.instances[CollectedInstance].endDate
               THEN "CollectionNotYetAvailable"
               ELSE "PlanExpired"
        /\ NoCredit

C5_SecondCollectRefused ==
    WithinWindow /\ last.resp = "CollectionNotYetAvailable"

Min(a, b) == IF a < b THEN a ELSE b

(* C6: a successful activation with invested amount a consumes
   min(bonusBalance_before, a) of the bonus, the wallet pays the rest, and
   walletBalance_after + bonusBalance_after + a equals walletBalance_before +
   bonusBalance_before. *)
C6_BonusFirstConservation ==
    Ok("activate") =>
        LET before == pre.users[last.uid]
            after == users[last.uid]
            a == last.amt
            bonusUsed == Min(before.bonusBalance, a)
        IN /\ before.bonusBalance - after.bonusBalance = bonusUsed
           /\ before.walletBalance - after.walletBalance = a - bonusUsed
           /\ after.walletBalance + after.bonusBalance + a =
                  before.walletBalance + before.bonusBalance

(* An activation paid partly from the bonus and partly from the wallet. *)
C6_MixedPayment ==
    /\ Ok("activate")
    /\ pre.users[last.uid].bonusBalance > 0
    /\ pre.users[last.uid].bonusBalance < last.amt
    /\ users[last.uid].walletBalance < pre.users[last.uid].walletBalance

(* C7: an instance whose status is expired keeps that status in every step,
   and a successful renewal appends a new active instance whose startDate is
   the time of the renewal, leaving every earlier instance, the renewed one
   included, as it was. *)
C7_ExpiryTerminal ==
    [][ /\ \A i \in InstanceIds :
              instances[i].status = "expired" =>
                  /\ i <= Len(instances')
                  /\ instances'[i].status = "expired"
        /\ (last'.op = "renew" /\ last'.resp = "ok") =>
              /\ Len(instances') = Len(instances) + 1
              /\ instances'[Len(instances')].status = "active"
              /\ instances'[Len(instances')].startDate = now'
              /\ instances'[last'.arg].status = "expired"
              /\ \A i \in InstanceIds : instances'[i] = instances[i]
      ]_vars

C7_Renewed ==
    /\ Ok("renew")
    /\ instances[last.arg].status = "expired"
    /\ users[last.uid].activePlanInstance = Len(instances)

(* The entries of account u in a ledger, added up the way the round trip of
   the ledger prescribes. *)
Signed(tx) ==
    LET abs == IF tx.amount < 0 THEN -tx.amount ELSE tx.amount
    IN CASE tx.type = "deposit" /\ tx.status = "approved" -> abs
         [] tx.type = "withdrawal" /\ tx.status = "approved" -> -abs
         [] tx.type = "collection" -> abs
         [] tx.type = "commission" -> abs
         [] tx.type = "welcome_bonus" -> abs
         [] tx.type = "investment" -> -abs
         [] OTHER -> 0

RECURSIVE SumOver(_)
SumOver(docs) ==
    IF docs = {} THEN 0
    ELSE LET tx == CHOOSE d \in docs : TRUE
         IN Signed(tx) + SumOver(docs \ {tx})

LedgerBalance(lg, u) == SumOver({ d \in lg : d.user = u })

(* C8: for every account, approved deposits minus approved withdrawals plus
   collections plus commissions plus welcome bonuses minus investments, taken
   from the ledger, equal the account's walletBalance. *)
C8_LedgerDerivableBalance ==
    \A u \in UserIds : LedgerBalance(ledger, u) = users[u].walletBalance

(* The referrer an invitee's request pays, and what the request added to the
   ledger. *)
PaidReferrer == pre.users[last.uid].invitedBy

CommissionPaid(base, rate) ==
    LET ref == PaidReferrer
        credited == users[ref].walletBalance - pre.users[ref].walletBalance
        added == ledger \ pre.ledger
    IN /\ credited * 100 = base * rate
       /\ users[ref].bonusBalance = pre.users[ref].bonusBalance
       /\ pre.ledger \subseteq ledger
       /\ Cardinality(added) = 2
       /\ \E tx \in added :
              /\ tx.user = ref
              /\ tx.type = "commission"
              /\ tx.amount = credited
              /\ tx.status = "approved"

(* C9: a commission paid on an invitee's activation is investedAmount *
   referralCommissionRate / 100 and one paid on an invitee's collection is
   dailyProfit * dailyCommissionRate / 100, with the rate of the settings at
   the time of the request; it is added to the referrer's walletBalance, the
   referrer's bonusBalance is unchanged, and a commission entry of that
   amount is appended for the referrer. *)
C9_CommissionAsConfigured ==
    /\ (Ok("activate") /\ PaidReferrer # 0) =>
           CommissionPaid(last.amt, settings.referralCommissionRate)
    /\ (Ok("collect") /\ PaidReferrer # 0) =>
           CommissionPaid(pre.instances[last.arg].dailyProfit,
                          settings.dailyCommissionRate)

(* A collection commission paid after the admin changed the rates. *)
C9_CollectionCommissionAtNewRate ==
    /\ Ok("collect")
    /\ PaidReferrer # 0
    /\ settings.dailyCommissionRate # DefaultDailyCommissionRate
    /\ users[PaidReferrer].walletBalance > pre.users[PaidReferrer].walletBalance

(* C10: an invitee's successful collect leaves the referrer's walletBalance
   and the ledger entries of the referrer unchanged when the referrer holds
   no active plan instance. *)
C10_CollectionCommissionGated ==
    (Ok("collect") /\ PaidReferrer # 0
        /\ pre.users[PaidReferrer].activePlanInstance = 0) =>
        /\ users[PaidReferrer].walletBalance = pre.users[PaidReferrer].walletBalance
        /\ \A tx \in ledger : tx.user = PaidReferrer => tx \in pre.ledger

(* The active instance an account had when the request arrived. *)
LoadedInstance == pre.users[last.uid].activePlanInstance

(* C11: a plan listing, dashboard, collect, upgrade or activate request
   served at a time later than the endDate of the account's active instance
   leaves that instance expired and the account's activePlanInstance
   cleared. *)
C11_ExpiredOnLoad ==
    (/\ last.op \in {"plans", "dashboard", "collect", "upgrade", "activate"}
     /\ LoadedInstance # 0
     /\ now > pre.instances[LoadedInstance].endDate)
    => /\ instances[LoadedInstance].status = "expired"
       /\ users[last.uid].activePlanInstance = 0

(* The floor of the template of the active instance of account u. *)
CurrentFloor(u) == plans[instances[users[u].activePlanInstance].plan].minAmount

(* The step changes no user, no plan instance and no ledger entry. *)
NothingMutated ==
    /\ users' = users
    /\ instances' = instances
    /\ ledger' = ledger

(* C17: an upgrade request of an account with an active instance for a
   template whose floor is not above the floor of the current template is
   answered NotAnUpgrade and changes no balance, no instance, no
   activePlanInstance and no ledger entry. *)
C17_NotAnUpgradeMutatesNothing ==
    [][ \A u \in UserIds, p \in PlanIds :
            (/\ upgradePlan(u, p)
             /\ users[u].activePlanInstance # 0
             /\ plans[p].minAmount <= CurrentFloor(u))
            => /\ last'.resp = "NotAnUpgrade"
               /\ NothingMutated
      ]_vars

(* An upgrade was answered NotAnUpgrade. *)
C17_SameTierRefused ==
    /\ last.op = "upgrade"
    /\ last.resp = "NotAnUpgrade"
    /\ pre.users[last.uid].activePlanInstance # 0

(* C18: an upgrade request whose price difference (new floor minus current
   floor) is above the walletBalance is refused and changes nothing, whatever
   the bonusBalance; a successful upgrade takes exactly the price difference
   from walletBalance, leaves bonusBalance, sets the old instance to expired,
   appends an active instance at the new floor that becomes the
   activePlanInstance, and appends one investment entry of minus the price
   difference. *)
C18_UpgradeWalletOnly ==
    [][ /\ \A u \in UserIds, p \in PlanIds :
              (/\ upgradePlan(u, p)
               /\ users[u].activePlanInstance # 0
               /\ users[u].walletBalance < plans[p].minAmount - CurrentFloor(u))
              => /\ last'.resp # "ok"
                 /\ NothingMutated
        /\ (last'.op = "upgrade" /\ last'.resp = "ok") =>
              LET u == last'.uid
                  old == users[u].activePlanInstance
                  newPlan == plans[last'.arg]
                  priceDifference == newPlan.minAmount - CurrentFloor(u)
                  new == Len(instances) + 1
              IN /\ priceDifference > 0
                 /\ users[u].walletBalance >= priceDifference
                 /\ users' = [ users EXCEPT
                        ![u].walletBalance = @ - priceDifference,
                        ![u].activePlanInstance = new ]
                 /\ Len(instances') = new
                 /\ \A i \in InstanceIds :
                        instances'[i] =
                            IF i = old
                            THEN [ instances[i] EXCEPT !.status = "expired" ]
                            ELSE instances[i]
                 /\ instances'[new].user = u
                 /\ instances'[new].plan = last'.arg
                 /\ instances'[new].status = "active"
                 /\ instances'[new].investedAmount = newPlan.minAmount
                 /\ ledger \subseteq ledger'
                 /\ \E tx \in ledger' \ ledger :
                        /\ ledger' = ledger \cup {tx}
                        /\ tx.user = u
                        /\ tx.type = "investment"
                        /\ tx.amount = -priceDifference
      ]_vars

(* A successful upgrade of an account that holds a bonus. *)
C18_UpgradedWithBonusUntouched ==
    /\ Ok("upgrade")
    /\ users[last.uid].bonusBalance > 0
    /\ users[last.uid].walletBalance < pre.users[last.uid].walletBalance

(* An upgrade refused for lack of funds in the wallet although wallet and
   bonus together reach the price difference (20, from floor 40 to 60). *)
UpgradeRefusedDespiteBonus ==
    /\ last.op = "upgrade"
    /\ last.resp = "InsufficientFunds"
    /\ users[last.uid].walletBalance + users[last.uid].bonusBalance >= 20

(* C19: a successful renewal was asked by the owner of the instance, for an
   instance whose status is expired, by an account without active instance;
   it takes the floor of the template from walletBalance, leaves
   bonusBalance, appends a new active instance of the same template at that
   floor and leaves every earlier instance, the renewed one included, as it
   was. *)
C19_RenewalPreconditions ==
    Ok("renew") =>
        LET u == last.uid
            before == pre.users[u]
            old == last.arg
            new == Len(instances)
        IN /\ old \in 1..Len(pre.instances)
           /\ pre.instances[old].user = u
           /\ pre.instances[old].status = "expired"
           /\ before.activePlanInstance = 0
           /\ LET renewalCost == plans[pre.instances[old].plan].minAmount
              IN /\ before.walletBalance >= renewalCost
                 /\ users[u].walletBalance = before.walletBalance - renewalCost
                 /\ users[u].bonusBalance = before.bonusBalance
                 /\ instances[new].investedAmount = renewalCost
           /\ new = Len(pre.instances) + 1
           /\ \A i \in 1..Len(pre.instances) : instances[i] = pre.instances[i]
           /\ instances[new].user = u
           /\ instances[new].plan = pre.instances[old].plan
           /\ instances[new].status = "active"
           /\ instances[new].startDate = now
           /\ users[u].activePlanInstance = new

(* A renewal by an account that holds a bonus. *)
C19_RenewedFromWallet ==
    /\ Ok("renew")
    /\ pre.users[last.uid].bonusBalance > 0
    /\ users[last.uid].walletBalance < pre.users[last.uid].walletBalance

(* C20: an activation request of an account that has an active instance, or
   for an amount outside [minAmount, maxAmount] of the template, or for an
   amount above bonusBalance + walletBalance, is refused and changes no
   balance, no instance, no flag and no ledger entry. *)
C20_ActivationRefused ==
    [][ \A u \in UserIds, p \in PlanIds, a \in InvestAmounts :
            (/\ activatePlan(u, p, a)
             /\ \/ users[u].activePlanInstance # 0
                \/ a < plans[p].minAmount
                \/ a > plans[p].maxAmount
                \/ users[u].bonusBalance + users[u].walletBalance < a)
            => /\ last'.resp \in {"AlreadyHasActivePlan", "AmountOutOfRange",
                                  "InsufficientFunds"}
               /\ NothingMutated
      ]_vars

(* An activation refused for lack of funds. *)
C20_RefusedForFunds ==
    /\ last.op = "activate"
    /\ last.resp = "InsufficientFunds"
    /\ users = pre.users /\ instances = pre.instances /\ ledger = pre.ledger

(* An approve or reject request for entry tx is served in this step. *)
SettlementOf(tx) ==
    \/ approveDeposit(tx)
    \/ rejectDeposit(tx)
    \/ approveWithdrawal(tx)
    \/ rejectWithdrawal(tx)

(* C14: an entry whose status is approved or rejected stays in the ledger as
   it is in every step, and an approve or reject request for it is refused
   and changes no balance and no entry. *)
C14_SettledIsImmutable ==
    [][ \A tx \in ledger :
            tx.status # "pending" =>
                /\ tx \in ledger'
                /\ SettlementOf(tx) =>
                       /\ last'.resp = "InvalidOrProcessed"
                       /\ users' = users
                       /\ ledger' = ledger
      ]_vars

(* A settlement request for an entry already approved or rejected was
   refused. *)
C14_SettledRefused ==
    /\ last.op \in {"approveDeposit", "rejectDeposit",
                     "approveWithdrawal", "rejectWithdrawal"}
    /\ last.resp = "InvalidOrProcessed"
    /\ \E tx \in ledger :
           /\ tx.user = last.uid /\ tx.seq = last.arg
           /\ tx.type = (IF last.op \in {"approveDeposit", "rejectDeposit"}
                         THEN "deposit" ELSE "withdrawal")
           /\ tx.status # "pending"

(* The entry an approveWithdrawal request was about, as the request found
   it, and whether it was a pending withdrawal. *)
ApprovedEntry ==
    CHOOSE tx \in pre.ledger : IdOf(tx) = <<last.uid, "withdrawal", last.arg>>

ApprovalOfPending ==
    /\ last.op = "approveWithdrawal"
    /\ \E tx \in pre.ledger :
           /\ IdOf(tx) = <<last.uid, "withdrawal", last.arg>>
           /\ tx.status = "pending"

(* C15: a withdrawal request stores totalDeducted = amount + fee with the
   fee of the settings at that time, and an approval debits exactly the
   stored figure, whatever the fee of the settings is at the time of the
   approval. *)
C15_DebitsStoredTotal ==
    /\ Ok("withdraw") =>
           \E tx \in ledger \ pre.ledger :
               /\ ledger = pre.ledger \cup {tx}
               /\ tx.type = "withdrawal" /\ tx.status = "pending"
               /\ tx.amount = -last.amt
               /\ tx.totalDeducted * 100 =
                      last.amt * 100 + last.amt * settings.withdrawalFee
    /\ Ok("approveWithdrawal") =>
           /\ pre.users[last.uid].walletBalance - users[last.uid].walletBalance
                  = ApprovedEntry.totalDeducted
           /\ [ ApprovedEntry EXCEPT !.status = "approved" ] \in ledger

(* An approval served after the fee was changed: the stored figure differs
   from the one the settings would give now. *)
C15_ApprovedAfterFeeChange ==
    /\ Ok("approveWithdrawal")
    /\ ApprovedEntry.totalDeducted * 100 #
           -ApprovedEntry.amount * (100 + settings.withdrawalFee)

(* C16: the approval of a pending withdrawal whose totalDeducted is above the
   account's walletBalance sets the entry to rejected and leaves the
   walletBalance as it was. *)
C16_InsufficientAtApprovalRejects ==
    (/\ ApprovalOfPending
     /\ pre.users[last.uid].walletBalance < ApprovedEntry.totalDeducted)
    => /\ [ ApprovedEntry EXCEPT !.status = "rejected" ] \in ledger
       /\ \A tx \in ledger : IdOf(tx) = IdOf(ApprovedEntry) => tx.status = "rejected"
       /\ users = pre.users

(* An approval that found the wallet below totalDeducted. *)
C16_RejectedAtApproval ==
    /\ ApprovalOfPending
    /\ last.resp = "InsufficientFunds"
    /\ pre.users[last.uid].walletBalance < ApprovedEntry.totalDeducted

----------------------------------------------------------------------------
(* Properties of the interleaved runs.  The clock stands still while
   requests are in flight, so the requests of one run fall in one 24-hour
   window. *)

Succeeded(p, op) ==
    procs[p].op = op /\ procs[p].pc = "done" /\ procs[p].resp = "ok"

(* C2: of the collect requests of one account that run concurrently at most
   one succeeds: at most one collection entry is appended for the account,
   totalCollected of an instance grows by at most its dailyProfit, and, when
   only collects have run, the wallet grows by at most one dailyProfit. *)
C2_ConcurrentCollectOnce ==
    \A u \in UserIds :
        /\ Cardinality({ p \in Clients :
               Succeeded(p, "collect") /\ procs[p].uid = u }) <= 1
        /\ Cardinality({ tx \in ledger \ SeedLedger :
               tx.user = u /\ tx.type = "collection" }) <= 1
        /\ \A i \in InstanceIds :
               instances[i].totalCollected <=
                   Populate(SeedInstances, i).totalCollected
                   + instances[i].dailyProfit
        /\ (\A p \in Clients : procs[p].op \in {"none", "collect"}) =>
               \A i \in 1..Len(SeedInstances) :
                   SeedInstances[i].user = u =>
                       users[u].walletBalance <=
                           SeedUsers[u].walletBalance + SeedInstances[i].dailyProfit

(* C3: when the only requests run are approvals of one pending withdrawal
   entry, at most one of them reports success and the wallet of the account
   is debited at most once, by the entry's totalDeducted. *)
C3_SingleDebitPerEntry ==
    \A tx \in SeedLedger :
        (/\ tx.type = "withdrawal"
         /\ \A p \in Clients :
               \/ procs[p].op = "none"
               \/ procs[p].op = "approveWithdrawal" /\ IdOf(procs[p].tx) = IdOf(tx))
        => /\ Cardinality({ p \in Clients : Succeeded(p, "approveWithdrawal") }) <= 1
           /\ users[tx.user].walletBalance >=
                  SeedUsers[tx.user].walletBalance - tx.totalDeducted

(* What a finished request did to the wallet of account u, by its own
   report: its cost if it succeeded on u, its commission if u is the referrer
   it paid. *)
WalletEffect(r, u) ==
    IF r.pc = "done" /\ r.resp = "ok"
    THEN (IF r.uid = u THEN -r.cost ELSE 0)
         + (IF r.ref = u THEN r.commission ELSE 0)
    ELSE 0

RECURSIVE Total(_, _)
Total(S, u) ==
    IF S = {} THEN 0
    ELSE LET p == CHOOSE q \in S : TRUE
         IN WalletEffect(procs[p], u) + Total(S \ {p}, u)

AllSettled == \A p \in Clients : procs[p].pc \in {"idle", "done"}

(* C4: when activate, upgrade and approve-withdrawal requests have run to
   their responses, every wallet differs from the wallet the run started with
   by exactly the costs (and commissions) of the requests that reported
   success. *)
C4_AtomicCheckAndDebit ==
    (AllSettled /\ \A p \in Clients : procs[p].op # "collect") =>
        \A u \in UserIds :
            users[u].walletBalance = SeedUsers[u].walletBalance + Total(Clients, u)

----------------------------------------------------------------------------
(* Properties of the runs with failures. *)

CommissionSteps == {"findReferrer", "saveReferrer", "createCommission"}

Failed(p) == procs[p].pc = "done" /\ procs[p].resp = "ServerError"

(* The request of client p is the only one that has run. *)
Alone(p) == \A q \in Clients \ {p} : procs[q].pc = "idle"

(* C12: an activation or collection whose commission payment fails (the
   referrer cannot be loaded or saved, or the commission entry cannot be
   appended) still reports success, and its own entry stays in the ledger. *)
C12_CommissionFailureContained ==
    \A p \in Clients :
        (procs[p].pc = "done" /\ procs[p].failedAt \in CommissionSteps) =>
            /\ procs[p].resp = "ok"
            /\ \E tx \in ledger \ SeedLedgerF :
                   /\ tx.user = procs[p].uid
                   /\ tx.type = IF procs[p].op = "collect" THEN "collection"
                                ELSE "investment"

(* C13: a request that failed before the end of its own writes (balance,
   plan instance or entry status, ledger entry) has persisted none of them:
   when it is the only request that has run, the collections are as they
   were. *)
C13_AllOrNothing ==
    \A p \in Clients :
        (Failed(p) /\ procs[p].failedAt \notin CommissionSteps /\ Alone(p)) =>
            /\ users = SeedUsers
            /\ instances = SeedInstances
            /\ ledger = SeedLedgerF

(* C21: a collect request of an account without active instance is answered
   NoActivePlan and changes no user, no instance and no ledger entry; a
   collect request served later than the endDate of the active instance is
   answered PlanExpired, leaves every balance, the totalCollected of the
   instance and the ledger as they were (so no commission is paid), sets
   the instance to expired and clears the activePlanInstance of the
   account. *)
C21_CollectRefusals ==
    last.op = "collect" =>
        IF LoadedInstance = 0
        THEN /\ last.resp = "NoActivePlan"
             /\ users = pre.users
             /\ instances = pre.instances
             /\ ledger = pre.ledger
        ELSE now > pre.instances[LoadedInstance].endDate =>
             /\ last.resp = "PlanExpired"
             /\ ledger = pre.ledger
             /\ instances = [ pre.instances EXCEPT
                                  ![LoadedInstance].status = "expired" ]
             /\ users = [ pre.users EXCEPT
                              ![last.uid].activePlanInstance = 0 ]

(* A collect was refused for expiry although the 24 h window of the
   instance was still closed, and the account has a referrer. *)
C21_ExpiredCollectRefused ==
    /\ last.op = "collect"
    /\ last.resp = "PlanExpired"
    /\ LoadedInstance # 0
    /\ pre.instances[LoadedInstance].lastCollectedDate # NoDate
    /\ now - pre.instances[LoadedInstance].lastCollectedDate < TWENTY_FOUR_HOURS
    /\ instances[LoadedInstance].status = "expired"
    /\ users[last.uid].activePlanInstance = 0

(* A collect of an account without active instance was refused. *)
C21_NoActivePlanRefused ==
    /\ last.op = "collect"
    /\ last.resp = "NoActivePlan"
    /\ pre.users[last.uid].hasActivatedPlan

(* C22: a collect request of an account whose active instance has not
   passed its endDate, and has either never been collected or was last
   collected at least 24 h ago, succeeds: the walletBalance of the account
   grows by exactly the dailyProfit of the instance and lastCollectedDate
   becomes the time of the request. *)
C22_CollectWhenDue ==
    (/\ last.op = "collect"
     /\ LoadedInstance # 0
     /\ now <= pre.instances[LoadedInstance].endDate
     /\ \/ pre.instances[LoadedInstance].lastCollectedDate = NoDate
        \/ now >= pre.instances[LoadedInstance].lastCollectedDate
                      + TWENTY_FOUR_HOURS)
    => /\ last.resp = "ok"
       /\ users[last.uid].walletBalance =
              pre.users[last.uid].walletBalance
                  + pre.instances[LoadedInstance].dailyProfit
       /\ instances[LoadedInstance].lastCollectedDate = now

(* A second collection succeeded exactly 24 h after the first one. *)
C22_CollectedAtTwentyFourHours ==
    /\ Ok("collect")
    /\ LoadedInstance # 0
    /\ pre.instances[LoadedInstance].lastCollectedDate # NoDate
    /\ now = pre.instances[LoadedInstance].lastCollectedDate + TWENTY_FOUR_HOURS
    /\ instances[LoadedInstance].lastCollectedDate = now

(* A first collection succeeded at the very time of the activation. *)
C22_CollectedOnActivation ==
    /\ Ok("collect")
    /\ LoadedInstance # 0
    /\ pre.instances[LoadedInstance].lastCollectedDate = NoDate
    /\ now = pre.instances[LoadedInstance].startDate

(* C23: no step sets the hasDeposited flag or the hasActivatedPlan flag of
   an account from true back to false. *)
C23_FlagsOneWay ==
    [][ \A u \in UserIds :
            /\ users[u].hasDeposited => users'[u].hasDeposited
            /\ users[u].hasActivatedPlan => users'[u].hasActivatedPlan ]_vars

(* An account that has deposited and activated keeps both flags after its
   instance expired and a later deposit of it was rejected. *)
C23_FlagsKeptAfterExpiryAndRejection ==
    /\ Ok("rejectDeposit")
    /\ last.uid \in UserIds
    /\ users[last.uid].hasDeposited
    /\ users[last.uid].hasActivatedPlan
    /\ users[last.uid].activePlanInstance = 0
    /\ \E i \in InstanceIds :
           instances[i].user = last.uid /\ instances[i].status = "expired"

(* C24: no step raises the bonusBalance of an account, and the only step
   that lowers it is a successful activation requested by that account;
   collection, upgrade, renewal, commission payment, deposit approval and
   withdrawal approval leave every bonusBalance as it was. *)
C24_BonusOnlySpentOnActivation ==
    [][ \A u \in UserIds :
            /\ users'[u].bonusBalance <= users[u].bonusBalance
            /\ users'[u].bonusBalance < users[u].bonusBalance
                   => /\ last'.op = "activate"
                      /\ last'.resp = "ok"
                      /\ last'.uid = u
            /\ last'.op \in {"collect", "upgrade", "renew", "approveDeposit",
                              "approveWithdrawal"}
                   => users'[u].bonusBalance = users[u].bonusBalance ]_vars

(* A collection paid a commission to a referrer while both accounts held a
   positive bonusBalance, which the collection left as it was. *)
C24_CommissionPaidBesideBonus ==
    /\ Ok("collect")
    /\ PaidReferrer # 0
    /\ users[PaidReferrer].walletBalance
           > pre.users[PaidReferrer].walletBalance
    /\ users[PaidReferrer].bonusBalance > 0
    /\ users[last.uid].bonusBalance > 0
    /\ users[PaidReferrer].bonusBalance = pre.users[PaidReferrer].bonusBalance
    /\ users[last.uid].bonusBalance = pre.users[last.uid].bonusBalance

(* The requests that change walletBalance according to the account rules:
   deposit approval, investment (activation, upgrade, renewal), collection
   and the commission it or an activation pays, withdrawal approval. *)
WalletOperations ==
    {"approveDeposit", "activate", "upgrade", "renew", "collect",
     "approveWithdrawal"}

(* C25: a step changes the walletBalance of an account only when it serves a
   deposit approval, an investment, a collection (with its commission) or a
   withdrawal approval; registration, deposit and withdrawal requests,
   rejections, lottery redemption and the admin's actions leave every
   walletBalance as it was. *)
C25_WalletChangesOnlyByLedgerOperations ==
    [][ \A u \in UserIds :
            users'[u].walletBalance # users[u].walletBalance
                => last'.op \in WalletOperations ]_vars

(* A lottery redemption was served and the walletBalance of the account
   is not what it was. *)
C25_RedemptionCreditedWallet ==
    /\ Ok("redeem")
    /\ users[last.uid].walletBalance
           = pre.users[last.uid].walletBalance + last.amt
    /\ last.amt > 0

(* The admin's balance edit was served and the walletBalance of the account
   is not what it was. *)
C25_AdminEditChangedWallet ==
    /\ Ok("updateBalance")
    /\ users[last.uid].walletBalance # pre.users[last.uid].walletBalance

(* The requests of the user routes that write to the database. *)
UserOperations ==
    {"activate", "collect", "upgrade", "renew", "deposit", "withdraw",
     "redeem"}

(* C26: a request of a user route (activate, collect, upgrade, renew,
   deposit request, withdrawal request, lottery redeem) made by an account
   whose isBlocked flag is true is answered NotAuthorized and changes no
   user, no plan instance, no ledger entry and no lottery code. *)
C26_BlockedAccountRefused ==
    [][ \A u \in UserIds :
            (/\ users[u].isBlocked
             /\ last'.uid = u
             /\ last'.op \in UserOperations)
            => /\ last'.resp = "NotAuthorized"
               /\ NothingMutated
               /\ lottery' = lottery ]_vars

(* A blocked account asked to collect on an active instance that had never
   been collected, and was refused. *)
C26_BlockedCollectRefused ==
    /\ last.op = "collect"
    /\ last.resp = "NotAuthorized"
    /\ last.uid \in UserIds
    /\ users[last.uid].isBlocked
    /\ users[last.uid].activePlanInstance # 0
    /\ instances[users[last.uid].activePlanInstance].lastCollectedDate = NoDate
    /\ users = pre.users
    /\ ledger = pre.ledger

(* C27: every plan of the catalog has minAmount <= maxAmount, a positive
   dailyYieldValue and, when its dailyYieldType is percentage, a
   dailyYieldValue of at most 100, whatever createPlan and updatePlan
   requests the admin has made. *)
C27_CatalogValid ==
    \A p \in PlanIds :
        /\ plans[p].minAmount <= plans[p].maxAmount
        /\ plans[p].dailyYieldValue > 0
        /\ plans[p].dailyYieldType = "percentage"
               => plans[p].dailyYieldValue <= 100

(* An update that carried only the dailyYieldType was served and left a
   percentage plan with a yield above 100. *)
C27_TypeOnlyUpdateAccepted ==
    /\ Ok("updatePlan")
    /\ plans[last.arg].dailyYieldType = "percentage"
    /\ plans[last.arg].dailyYieldValue > 100

(* The part of the catalog rule that holds: the amounts stay ordered and
   the yield stays positive. *)
C27_AmountsOrderedYieldPositive ==
    \A p \in PlanIds :
        /\ plans[p].minAmount <= plans[p].maxAmount
        /\ plans[p].dailyYieldValue > 0

(* C28: no step changes the dailyProfit or the investedAmount of an
   existing plan instance, and a successful collect credits the account
   with the dailyProfit stored in the instance, whatever the template of
   the instance yields by then. *)
C28_ProfitIsSnapshot ==
    [][ /\ \A i \in InstanceIds :
               /\ instances'[i].dailyProfit = instances[i].dailyProfit
               /\ instances'[i].investedAmount = instances[i].investedAmount
        /\ \A u \in UserIds :
               (last'.op = "collect" /\ last'.resp = "ok" /\ last'.uid = u)
               => /\ users'[u].walletBalance =
                         users[u].walletBalance
                             + instances[users[u].activePlanInstance].dailyProfit
                  /\ last'.amt =
                         instances[users[u].activePlanInstance].dailyProfit
      ]_vars

(* A collect credited the stored dailyProfit although the template of the
   instance yields another amount since the admin edited it. *)
C28_CollectedAfterTemplateChange ==
    /\ Ok("collect")
    /\ LoadedInstance # 0
    /\ last.amt = instances[LoadedInstance].dailyProfit
    /\ users[last.uid].walletBalance =
           pre.users[last.uid].walletBalance + last.amt
    /\ DailyProfitOf(plans[instances[LoadedInstance].plan],
                     instances[LoadedInstance].investedAmount) # last.amt

(* The entries of the account served that the request added. *)
NewEntries == { tx \in ledger \ pre.ledger : tx.user = last.uid }

(* C29: a successful activation adds exactly one ledger entry on the
   activating account: an investment entry whose magnitude is the whole
   investedAmount of the new instance, whatever part of it the
   bonusBalance paid. *)
C29_OneInvestmentEntryOfFullAmount ==
    Ok("activate") =>
        /\ Cardinality(NewEntries) = 1
        /\ \A tx \in NewEntries :
               /\ tx.type = "investment"
               /\ tx.amount = -last.amt
               /\ -tx.amount =
                      instances[users[last.uid].activePlanInstance].investedAmount
        /\ Cardinality({ tx \in ledger \ pre.ledger :
                             tx.type = "investment" }) = 1

(* An activation was paid partly from the bonusBalance and partly from the
   walletBalance. *)
C29_ActivatedPartlyFromBonus ==
    /\ Ok("activate")
    /\ users[last.uid].bonusBalance < pre.users[last.uid].bonusBalance
    /\ users[last.uid].walletBalance < pre.users[last.uid].walletBalance
    /\ \E tx \in NewEntries : tx.amount = -last.amt

(* The entries the request served created: those whose _id the ledger did
   not hold when the request arrived. *)
CreatedEntries ==
    { tx \in ledger : \A d \in pre.ledger : IdOf(d) # IdOf(tx) }

(* C30: an entry of type deposit or withdrawal is created with status
   pending, by a request that changes no walletBalance and no bonusBalance;
   an entry of type investment, collection, commission or welcome_bonus is
   created with status approved. *)
C30_StatusAtCreation ==
    last.op # "none" =>
        \A tx \in CreatedEntries :
            /\ tx.type \in {"deposit", "withdrawal"}
                   => /\ tx.status = "pending"
                      /\ \A u \in DOMAIN pre.users :
                             /\ users[u].walletBalance
                                    = pre.users[u].walletBalance
                             /\ users[u].bonusBalance
                                    = pre.users[u].bonusBalance
            /\ tx.type \in {"investment", "collection", "commission",
                             "welcome_bonus"}
                   => tx.status = "approved"

(* A withdrawal request was accepted: its entry is pending and the
   walletBalance of the account is what it was. *)
C30_WithdrawalCreatedPending ==
    /\ Ok("withdraw")
    /\ \E tx \in CreatedEntries :
           tx.type = "withdrawal" /\ tx.status = "pending"
    /\ users = pre.users

(* C31: no step removes a ledger entry or a plan instance: every entry and
   every instance stored before a step is stored after it. *)
C31_LedgerAndInstancesOnlyGrow ==
    [][ /\ \A tx \in ledger : \E d \in ledger' : IdOf(d) = IdOf(tx)
        /\ \A i \in InstanceIds :
               instances[i] # NullInstance
                   => /\ i \in 1..Len(instances')
                      /\ instances'[i] # NullInstance ]_vars

(* The admin deleted an account that had ledger entries and a plan
   instance, and none of them is stored any more. *)
C31_DeletedWithHistory ==
    /\ Ok("deleteUser")
    /\ \E tx \in pre.ledger : tx.user = last.uid
    /\ \E i \in DOMAIN pre.instances : pre.instances[i].user = last.uid
    /\ \A tx \in ledger : tx.user # last.uid
    /\ \A i \in InstanceIds : instances[i].user # last.uid

(* Request p paid a commission to account u, and request q is an operation
   of account u itself on its wallet; both reported success. *)
CommissionBesideOwnOperation(p, q, u) ==
    /\ p # q
    /\ procs[p].pc = "done" /\ procs[p].resp = "ok"
    /\ procs[p].ref = u /\ procs[p].commission > 0
    /\ procs[q].pc = "done" /\ procs[q].resp = "ok"
    /\ procs[q].uid = u
    /\ procs[q].op \in {"collect", "activate", "upgrade", "approveWithdrawal"}

(* C32: when a request that credits a commission to a referrer and an
   operation of the referrer on the same account have both run to success,
   in whatever interleaving, the walletBalance of the referrer differs from
   the one the run started with by the commission and by the effect of the
   referrer's own operation: neither update is lost. *)
C32_NoLostUpdate ==
    AllSettled =>
        \A u \in UserIds :
            (\E p, q \in Clients : CommissionBesideOwnOperation(p, q, u))
            => users[u].walletBalance =
                   SeedUsers[u].walletBalance + Total(Clients, u)

(* An activation paid its commission to the referrer while the referrer
   collected, and the wallet of the referrer holds only one of the two
   credits. *)
C32_CommissionOrCollectionLost ==
    /\ AllSettled
    /\ \E p, q \in Clients :
           /\ CommissionBesideOwnOperation(p, q, 1)
           /\ procs[p].op = "activate"
           /\ procs[q].op = "collect"
           /\ users[1].walletBalance <
                  SeedUsers[1].walletBalance + procs[p].commission + procs[q].amt

(* The instances of status active that account u owns. *)
ActiveInstancesOf(u) ==
    { i \in InstanceIds :
          instances[i].user = u /\ instances[i].status = "active" }

(* C33: every account owns at most one plan instance of status active, and
   an activePlanInstance that is not null refers to an instance of status
   active owned by the account. *)
C33_OneActiveInstance ==
    \A u \in UserIds :
        /\ Cardinality(ActiveInstancesOf(u)) <= 1
        /\ users[u].activePlanInstance # 0
               => users[u].activePlanInstance \in ActiveInstancesOf(u)

(* An upgrade was served: the account owns the old instance, expired, and
   the new one, active, to which its activePlanInstance refers. *)
C33_UpgradedToSingleActive ==
    /\ Ok("upgrade")
    /\ LoadedInstance # 0
    /\ instances[LoadedInstance].status = "expired"
    /\ users[last.uid].activePlanInstance # LoadedInstance
    /\ ActiveInstancesOf(last.uid) = { users[last.uid].activePlanInstance }

(* The instances created for account u since the run started. *)
CreatedInstancesOf(u) ==
    { i \in InstanceIds : i > Len(SeedInstances) /\ instances[i].user = u }

RECURSIVE Invested(_)
Invested(S) ==
    IF S = {} THEN 0
    ELSE LET i == CHOOSE j \in S : TRUE
         IN instances[i].investedAmount + Invested(S \ {i})

(* C34: when activate requests of one account have run to their responses,
   in whatever interleaving, the account owns at most one instance of
   status active, and its walletBalance and bonusBalance together are lower
   than at the start by the invested amount of every instance created for
   it (accounts that received a commission aside). *)
C34_InterleavedActivationsOnce ==
    (AllSettled /\ \A p \in Clients : procs[p].op \in {"none", "activate"}) =>
        \A u \in UserIds :
            /\ Cardinality(ActiveInstancesOf(u)) <= 1
            /\ (\A p \in Clients : procs[p].ref # u) =>
                   users[u].walletBalance + users[u].bonusBalance =
                       SeedUsers[u].walletBalance + SeedUsers[u].bonusBalance
                           - Invested(CreatedInstancesOf(u))

(* Two activations of one account both reported success and the account
   owns two instances of status active. *)
C34_TwoActiveInstances ==
    /\ AllSettled
    /\ \A p \in Clients : Succeeded(p, "activate") /\ procs[p].uid = 2
    /\ Cardinality(ActiveInstancesOf(2)) = 2

(* The successful collect, if any, that a step serves on instance i. *)
CollectedOn(i) ==
    /\ last'.op = "collect"
    /\ last'.resp = "ok"
    /\ last'.uid \in UserIds
    /\ users[last'.uid].activePlanInstance = i

(* The number of whole days between startDate and endDate of an instance:
   the durationDays of its template at creation. *)
DurationDaysOf(inst) == (inst.endDate - inst.startDate) \div TWENTY_FOUR_HOURS

(* C35: the totalCollected of an instance starts at 0, grows by exactly its
   dailyProfit in every step that serves a successful collect on it and
   changes in no other step, so it is dailyProfit times the number of
   successful collects; that number is at most durationDays + 1. *)
C35_TotalCollectedCounts ==
    [][ /\ \A i \in InstanceIds :
               instances'[i].totalCollected =
                   instances[i].totalCollected
                       + (IF CollectedOn(i) THEN instances[i].dailyProfit ELSE 0)
        /\ \A i \in 1..Len(instances') :
               /\ i \notin InstanceIds => instances'[i].totalCollected = 0
               /\ \E k \in 0..(DurationDaysOf(instances'[i]) + 1) :
                      instances'[i].totalCollected
                          = k * instances'[i].dailyProfit ]_vars

(* A collect succeeded that brought the totalCollected of its instance to
   dailyProfit times (durationDays + 1). *)
C35_CollectedEveryDay ==
    /\ Ok("collect")
    /\ LoadedInstance # 0
    /\ instances[LoadedInstance].dailyProfit > 0
    /\ instances[LoadedInstance].totalCollected =
           (DurationDaysOf(instances[LoadedInstance]) + 1)
               * instances[LoadedInstance].dailyProfit

(* The walletBalance and the ledger entries of the referrer of the account
   served are what they were when the request arrived. *)
ReferrerUntouched ==
    /\ users[PaidReferrer].walletBalance = pre.users[PaidReferrer].walletBalance
    /\ { tx \in ledger : tx.user = PaidReferrer }
           = { tx \in pre.ledger : tx.user = PaidReferrer }

(* C36: a successful upgrade or renewal of an invited account leaves the
   walletBalance and the ledger entries of its referrer unchanged; a
   successful activation of an invited account raises the walletBalance of
   the referrer and adds a commission entry for the referrer. *)
C36_NoCommissionOnUpgradeOrRenewal ==
    /\ ((Ok("upgrade") \/ Ok("renew")) /\ PaidReferrer # 0) => ReferrerUntouched
    /\ (Ok("activate") /\ PaidReferrer # 0) =>
           /\ users[PaidReferrer].walletBalance
                  > pre.users[PaidReferrer].walletBalance
           /\ \E tx \in ledger \ pre.ledger :
                  tx.user = PaidReferrer /\ tx.type = "commission"

(* An invited account whose activation had paid a commission upgraded, and
   its referrer received nothing. *)
C36_UpgradeOfInvitedAccount ==
    /\ Ok("upgrade")
    /\ PaidReferrer # 0
    /\ last.amt > 0
    /\ \E tx \in pre.ledger :
           tx.user = PaidReferrer /\ tx.type = "commission" /\ tx.from = last.uid
    /\ ReferrerUntouched

(* An invited account renewed an expired instance, and its referrer
   received nothing. *)
C36_RenewalOfInvitedAccount ==
    /\ Ok("renew")
    /\ PaidReferrer # 0
    /\ ReferrerUntouched

(* The entry of the _id of tx as a ledger holds it. *)
EntryOf(lg, tx) == CHOOSE d \in lg : IdOf(d) = IdOf(tx)

(* The walletBalance of every account. *)
Wallets(us) == [ u \in DOMAIN us |-> us[u].walletBalance ]

RECURSIVE Amounts(_)
Amounts(docs) ==
    IF docs = {} THEN 0
    ELSE LET tx == CHOOSE d \in docs : TRUE
         IN tx.amount + Amounts(docs \ {tx})

(* The approved deposits and the commissions of account u in a ledger. *)
CreditsOf(lg, u) ==
    { d \in lg : /\ d.user = u
                 /\ \/ d.type = "deposit" /\ d.status = "approved"
                    \/ d.type = "commission" }

(* C37: for every deposit entry, the step in which its status goes from
   pending to approved credits its amount to the walletBalance of its owner
   and changes no other walletBalance; its status changes in no step once
   it is approved or rejected, and a step that leaves it pending or
   rejects it credits nothing for it, so that no walletBalance ever exceeds
   the approved deposits and commissions of the account.  A request that
   rejects a deposit or a withdrawal changes no balance. *)
C37_DepositCreditedOnce ==
    [][ /\ \A t \in ledger :
               t.type = "deposit" =>
                   /\ \E d \in ledger' : IdOf(d) = IdOf(t)
                   /\ t.status # "pending"
                          => EntryOf(ledger', t).status = t.status
                   /\ (t.status = "pending"
                          /\ EntryOf(ledger', t).status = "approved")
                          => Wallets(users') =
                                 [ Wallets(users) EXCEPT ![t.user] = @ + t.amount ]
                   /\ (approveDeposit(t) \/ rejectDeposit(t))
                          => \/ t.status = "pending"
                                    /\ EntryOf(ledger', t).status = "approved"
                             \/ Wallets(users') = Wallets(users)
        /\ last'.op \in {"rejectDeposit", "rejectWithdrawal"}
               => /\ Wallets(users') = Wallets(users)
                  /\ \A u \in UserIds :
                         users'[u].bonusBalance = users[u].bonusBalance
        /\ \A u \in 1..Len(users') :
               users'[u].walletBalance <= Amounts(CreditsOf(ledger', u))
      ]_vars

(* A second approval of a deposit already approved was refused, the wallet
   of the owner holding the amount once. *)
C37_SecondApprovalRefused ==
    /\ last.op = "approveDeposit"
    /\ last.resp = "InvalidOrProcessed"
    /\ \E d \in ledger :
           /\ d.user = last.uid /\ d.seq = last.arg
           /\ d.type = "deposit" /\ d.status = "approved"
           /\ users[d.user].walletBalance = d.amount
    /\ users = pre.users

(* The pending withdrawals of account u. *)
PendingWithdrawalsOf(lg, u) ==
    { d \in lg : d.user = u /\ d.type = "withdrawal" /\ d.status = "pending" }

RECURSIVE Reserved(_)
Reserved(docs) ==
    IF docs = {} THEN 0
    ELSE LET tx == CHOOSE d \in docs : TRUE
         IN tx.totalDeducted + Reserved(docs \ {tx})

(* C38: a withdrawal request is accepted only for an account with
   hasDeposited true, with an active plan or hasActivatedPlan true, and with
   amount + fee <= walletBalance at the time of the request; the accepted
   request changes no account, so nothing is reserved; an approval debits
   no more than the wallet held before it, and no walletBalance goes below
   zero whatever the pending withdrawals add up to. *)
C38_WithdrawalAcceptedOnlyIfCovered ==
    /\ Ok("withdraw") =>
           LET user == pre.users[last.uid]
           IN  /\ user.hasDeposited
               /\ user.activePlanInstance # 0 \/ user.hasActivatedPlan
               /\ last.amt * 100 + last.amt * settings.withdrawalFee
                      <= user.walletBalance * 100
               /\ users = pre.users
    /\ Ok("approveWithdrawal") =>
           /\ pre.users[last.uid].walletBalance - users[last.uid].walletBalance
                  <= pre.users[last.uid].walletBalance
           /\ \A u \in UserIds \ {last.uid} :
                  users[u].walletBalance = pre.users[u].walletBalance
    /\ \A u \in UserIds : users[u].walletBalance >= 0

(* An approval was served while the pending withdrawals of the account,
   the approved one among them, added up to more than the wallet held. *)
C38_ApprovedWhilePendingExceedWallet ==
    /\ Ok("approveWithdrawal")
    /\ Reserved(PendingWithdrawalsOf(pre.ledger, last.uid))
           > pre.users[last.uid].walletBalance
    /\ Cardinality(PendingWithdrawalsOf(pre.ledger, last.uid)) >= 2
    /\ users[last.uid].walletBalance >= 0

(* C39: every instance with status active references a plan document that
   exists; a deletePlan request for a plan that an active instance
   references is refused and changes nothing; a renew request for an
   expired instance whose plan was deleted is refused with PlanNotFound and
   changes nothing. *)
C39_ActiveInstancesHaveTemplate ==
    [][ /\ \A i \in 1..Len(instances') :
               instances'[i].status = "active"
                   => PlanExists(plans', instances'[i].plan)
        /\ \A p \in PlanIds :
               (deletePlan(p)
                  /\ \E i \in InstanceIds :
                         instances[i].plan = p /\ instances[i].status = "active")
               => /\ last'.resp = "PlanInUse"
                  /\ UNCHANGED <<users, instances, ledger, plans>>
        /\ \A u \in UserIds, i \in InstanceIds :
               (renewPlan(u, i)
                  /\ instances[i].user = u
                  /\ instances[i].status = "expired"
                  /\ ~PlanExists(plans, instances[i].plan))
               => /\ last'.resp \in {"PlanNotFound", "AlreadyHasActivePlan"}
                  /\ UNCHANGED <<users, instances, ledger, plans>>
      ]_vars

(* The renewal of an expired instance was refused because its plan had been
   deleted. *)
C39_RenewalOfDeletedTemplateRefused ==
    /\ last.op = "renew"
    /\ last.resp = "PlanNotFound"
    /\ \E i \in InstanceIds :
           /\ instances[i].user = last.uid
           /\ instances[i].status = "expired"
           /\ plans[instances[i].plan] = NoPlan

(* The deletion of a plan was refused while an instance of it was active. *)
C39_DeletionRefusedWhileActive ==
    /\ last.op = "deletePlan"
    /\ last.resp = "PlanInUse"
    /\ \E i \in InstanceIds :
           instances[i].status = "active" /\ plans[instances[i].plan] # NoPlan

(* C40 as worded: while the active instance of an account is past its
   endDate, every renew request of the account for one of its instances is
   refused with AlreadyHasActivePlan. *)
C40_RenewRefusedAsActivePlan ==
    [][ \A u \in UserIds, i \in InstanceIds :
            (Lapsed(u) /\ instances[i].user = u /\ renewPlan(u, i))
            => last'.resp = "AlreadyHasActivePlan"
      ]_vars

(* C40: while the active instance of an account is past its endDate, every
   activate request of the account is refused with AlreadyHasActivePlan and
   every renew request of the account is refused, with AlreadyHasActivePlan
   for an expired instance of the account and with NotExpired for the
   instance past its endDate itself, whose stored status is still active;
   these requests change nothing.  A collect request of the account sets
   the instance to expired and clears activePlanInstance, after which no
   activation or renewal is refused with AlreadyHasActivePlan, and no other
   request clears activePlanInstance.  An account whose active instance is
   past its endDate gets out of that state. *)
C40_LapsedUntilCollect ==
    /\ [][ \A u \in UserIds :
              Lapsed(u) =>
                  /\ \A p \in 1..(Len(plans) + 1), a \in InvestAmounts :
                         activatePlan(u, p, a)
                         => /\ last'.resp = "AlreadyHasActivePlan"
                            /\ NothingMutated
                  /\ \A i \in 1..(Len(instances) + 1) :
                         renewPlan(u, i)
                         => /\ NothingMutated
                            /\ last'.resp =
                                  IF i \notin InstanceIds THEN "InstanceNotFound"
                                  ELSE IF instances[i].user # u
                                       THEN "InstanceNotFound"
                                  ELSE IF instances[i].status = "expired"
                                       THEN "AlreadyHasActivePlan"
                                  ELSE "NotExpired"
                  /\ collectDailyProfit(u)
                         => /\ last'.resp = "PlanExpired"
                            /\ users'[u].activePlanInstance = 0
                            /\ instances'[users[u].activePlanInstance].status
                                   = "expired"
                            /\ \A p \in PlanIds, a \in InvestAmounts :
                                   ActivateError(users'[u], p, a, plans')
                                       # "AlreadyHasActivePlan"
                            /\ RenewError(users'[u], u,
                                          users[u].activePlanInstance,
                                          instances', plans')
                                   \notin {"AlreadyHasActivePlan", "NotExpired"}
                  /\ users'[u].activePlanInstance = 0
                         => collectDailyProfit(u)
          ]_vars
    /\ \A u \in 1..MaxUsers : Lapsed(u) ~> ~Lapsed(u)

(* The renewal of the instance past its endDate itself was refused because
   its stored status is still active. *)
C40_RenewalOfLapsedInstanceRefused ==
    /\ last.op = "renew"
    /\ last.resp = "NotExpired"
    /\ Lapsed(last.uid)
    /\ users = pre.users /\ instances = pre.instances

(* An activation was refused while the active instance was past its
   endDate. *)
C40_ActivationRefusedWhileLapsed ==
    /\ last.op = "activate"
    /\ last.resp = "AlreadyHasActivePlan"
    /\ Lapsed(last.uid)

(* The renewal of an expired instance was refused while a later instance
   of the account was past its endDate. *)
C40_RenewalOfExpiredRefusedWhileLapsed ==
    /\ last.op = "renew"
    /\ last.resp = "AlreadyHasActivePlan"
    /\ Lapsed(last.uid)

=============================================================================
